---- MODULE Spec2Model ----
(***************************************************************************)
(* Request-lifecycle engine of the LLM gateway: the dispatcher             *)
(* (app/services/router.py) driven by the chat-completions handler         *)
(* (app/api/routes/chat.py), for unary requests (Spec) and for streamed    *)
(* requests (SpecStream).                                                  *)
(* The adapters' stream generators (app/providers) are SpecAdapter, the    *)
(* load balancer (app/services/balancer.py) is SpecBalancer and the prober *)
(* (app/services/health_check.py) is SpecProber.                           *)
(*                                                                         *)
(* Python values are encoded so that TLC can compare them:                 *)
(*   Optional[int]   <<>> for None, <<n>> for the integer n                *)
(*   usage / tokens  <<>> for None, <<prompt, completion, total>>          *)
(*   str             a sequence of character classes ("e" = [a-zA-Z0-9\s], *)
(*                   "c" = any other character)                            *)
(***************************************************************************)
EXTENDS Integers, Sequences, FiniteSets, TLC

VARIABLES
    \* ---- the request and the store -------------------------------------
    chain,          \* provider_names = [provider_name] + fallback_providers
    reqRetry,       \* request.retry_count (Optional[int])
    messages,       \* request.messages
    enabled,        \* names for which _get_provider returns a row
    \* ---- control -------------------------------------------------------
    pc,             \* position of the request in the handler
    idx,            \* index in chain of current_provider_name
    attempt,        \* loop variable of _try_provider
    \* ---- what the request did ------------------------------------------
    trace,          \* upstream calls and backoff sleeps, in order
    logs,           \* request_logs rows added by this request, in order
    last_error,     \* _try_provider's last_error
    last_errors,    \* route_request's last_errors dict
    response,       \* the response object returned by route_request
    raised,         \* the exception raised by route_request
    httpStatus,     \* status of the HTTP response (0: none yet)
    \* ---- streaming -----------------------------------------------------
    emitted,        \* frames the adapter has yielded so far
    delivered,      \* frames the caller has received so far
    last_chunk,     \* route_streaming_request's last_chunk
    stream_state,   \* tracked_stream's stream_state
    streamCalls,    \* providers on which chat_completion_stream was called
    outcome,        \* how the stream ended
    \* ---- one adapter's chat_completion_stream ---------------------------
    adapter,        \* provider type of the adapter that runs
    upstream,       \* lines read from response.aiter_lines() so far
    frames,         \* frames the adapter generator has yielded so far
    apc,            \* position of the adapter generator
    \* ---- the provider fleet: store, candidate cache, balancer, prober ---
    db,             \* providers joined with provider_health, by name
    cache,          \* value under the key balancer:providers:<model>
    result,         \* outcome of the last balancer call
    ppc,            \* position of the prober loop
    batch,          \* providers the current or last pass of the loop selected
    todo,           \* providers of the batch whose check has not run yet
    probed,         \* providers of the batch whose probe request was sent
    lastProbe,      \* per provider, outcome of its most recent probe
    fails,          \* per provider, length of its current run of failed
                    \* probes, counted up to max_errors
    \* ---- database sessions that run check_provider_health ---------------
    spc,            \* per session, its position
    snap,           \* per session, the health record the session holds
    sres,           \* per session, what its check did (Optional)
    \* ---- the caller and the environment of a request --------------------
    authorization,  \* Authorization header, split on whitespace (<<>>: absent
                    \* or empty)
    x_api_key,      \* X-API-Key header (Optional[str])
    api_keys,       \* settings.api_keys, the allow-list
    hint,           \* request.timeout (Optional[int])
    db_faulty,      \* whether a commit of the request's session can raise
    session,        \* the request's AsyncSession: "clean" or "failed"
    cancelled,      \* whether the caller's task was cancelled
    adapter_timeout, \* timeout given to the adapter created last (Optional)
    \* ---- the admin surface and the read-through caches of /v1/models -----
    kv,             \* Redis keys of the invalidated families -> version of
                    \* the configuration their value was built from
    written,        \* per key family, number of committed admin writes
    served,         \* version of the last answer of a cached read (Optional)
    \* ---- the rate limiter's counter of one identifier --------------------
    rl,             \* the key rate_limit:<identifier> (Optional): its count
                    \* and whether it carries a TTL
    lpc,            \* per limiter call in flight, its position
    seen,           \* per limiter call, the count cache.get returned
    verdict,        \* per limiter call, how the last call ended
    started,        \* limiter calls started so far
    \* ---- one call of a pure helper --------------------------------------
    args,           \* the helper and its arguments
    ret             \* what the call returned or raised (Optional)

reqVars    == <<chain, reqRetry, messages, enabled>>
unaryVars  == <<idx, attempt, trace, last_error, last_errors, response, raised>>
streamVars == <<emitted, delivered, last_chunk, stream_state, streamCalls, outcome>>
lifecycleVars == <<reqVars, pc, logs, httpStatus, unaryVars, streamVars>>
adapterVars == <<adapter, upstream, frames, apc>>
balancerVars == <<cache, result>>
sessionVars == <<spc, snap, sres>>
proberVars == <<ppc, batch, todo, probed, lastProbe, fails, sessionVars>>
fleetVars == <<db, balancerVars, proberVars>>
authVars == <<authorization, x_api_key, api_keys>>
limiterVars == <<rl, lpc, seen, verdict, started>>
adminVars == <<kv, written, served, limiterVars>>
requestVars == <<authVars, hint, db_faulty, session, cancelled, adapter_timeout>>
callVars == <<args, ret>>
envVars == <<requestVars, adminVars, callVars>>
notAdmin == <<lifecycleVars, adapterVars, fleetVars, requestVars, callVars>>
notCall == <<lifecycleVars, adapterVars, fleetVars, requestVars, adminVars>>
notLifecycle == <<adapterVars, fleetVars, envVars>>
notAdapter == <<lifecycleVars, fleetVars, envVars>>
notFleet == <<lifecycleVars, adapterVars, envVars>>
vars       == <<lifecycleVars, adapterVars, fleetVars, envVars>>

---------------------------------------------------------------------------
\* Bounds and program constants

\* provider names a request can mention
Providers == {"A", "B"}

\* longest fallback_providers list explored
MaxFallbacks == 2

\* ChatCompletionRequest.retry_count: Field(default=3, ge=0, le=5)
RetryCountMax == 5

\* settings.max_retry_count
max_retry_count == 3

\* cap of the backoff, wait_time = min(2 ** attempt, 10)
BackoffCap == 10

None == <<>>

Min(a, b) == IF a < b THEN a ELSE b

Range(s) == {s[i] : i \in DOMAIN s}

SeqsUpTo(S, n) == UNION {[1..k -> S] : k \in 0..n}

---------------------------------------------------------------------------
\* Pure pieces of RequestRouter

\* Python's `a or b` on an Optional[int]: None and 0 are both falsy.
PyOr(a, b) == IF a = None \/ a[1] = 0 THEN b ELSE a[1]

\* _try_provider: retry_count = request.retry_count or settings.max_retry_count
retry_count(req_retry) == PyOr(req_retry, max_retry_count)

wait_time_uncapped(k) == 2 ^ k

\* _try_provider: wait_time = min(2 ** attempt, 10)
wait_time(k) == Min(2 ^ k, BackoffCap)

sleeps_after_every_failure(k, rc) == TRUE

\* _try_provider: if attempt < retry_count: ... await asyncio.sleep(wait_time)
sleeps_after(k, rc) == k < rc

LogRow(provider, status, tokens, err) ==
    [provider |-> provider, status |-> status, tokens |-> tokens, error |-> err]

\* _log_request: status 200, tokens from response.usage when there is one
log_request(rows, provider, usage) ==
    Append(rows, LogRow(provider, 200, usage, None))

log_failed_request_dropped(rows, provider, err) == rows

log_failed_request_as_success(rows, provider, err) ==
    Append(rows, LogRow(provider, 200, None, None))

\* _log_failed_request: status 500, no token fields, the error message
log_failed_request(rows, provider, err) ==
    Append(rows, LogRow(provider, 500, None, <<err>>))

record_error_last_only(errs, name, e) == [n \in {name} |-> e]

\* route_request: last_errors[current_provider_name] = str(e)
record_error(errs, name, e) ==
    [n \in DOMAIN errs \cup {name} |-> IF n = name THEN e ELSE errs[n]]

label_with_primary(primary, current) == primary

\* route_request: response.provider = current_provider_name
response_provider(primary, current) == current

ProviderError(reason, n, last) == [reason |-> reason, attempts |-> n, last |-> last]

Call(i, p, k, ok) == [type |-> "call", idx |-> i, provider |-> p, attempt |-> k,
                      ok |-> ok, secs |-> 0]
Sleep(i, p, k, s) == [type |-> "sleep", idx |-> i, provider |-> p, attempt |-> k,
                      ok |-> FALSE, secs |-> s]

ErrorKinds == {"timeout", "4xx", "5xx"}

\* usage of a unary upstream response: Optional[Usage]
ResponseUsages == {None, <<3, 2, 5>>}

lookup_ignores_enabled(name, rows) == TRUE

lookup_requires_healthy(name, rows) ==
    /\ name \in rows
    /\ IF db[name].health = None THEN TRUE ELSE db[name].health[1].is_healthy

\* _get_provider: select(Provider).where(Provider.name == provider_name,
\* Provider.enabled == True), scalar_one_or_none(); `rows` are the names
\* that have an enabled row.
get_provider(name, rows) == name \in rows

\* Provider.timeout = Column(Integer, default=60, nullable=False)
provider_timeout == 60

timeout_clamped_by_hint(h, pt) == IF h = None THEN pt ELSE Min(h[1], pt)

\* _try_provider and route_streaming_request, in create_provider(...):
\*   timeout=request.timeout or provider.timeout
attempt_timeout(h, pt) == PyOr(h, pt)

\* `except Exception` does not catch asyncio.CancelledError, which derives
\* from BaseException; every error of an adapter or of the session derives
\* from Exception.
except_catches_everything(exc) == TRUE

except_Exception_catches(exc) == exc # "CancelledError"

\* `self.db.add(log_entry); await self.db.commit()`: the rows of the table
\* after the write, which stores the row unless the commit raised
write_log(before, after, committed) == IF committed THEN after ELSE before

log_write_propagates(committed) == ~committed

\* _log_request, _log_streaming_request, _log_failed_request: the body is
\* wrapped in try / except Exception, so nothing is raised to the caller
log_write_raises(committed) == FALSE

\* AsyncSession.rollback(): the session is usable again
rollback(s) == "clean"

\* the session after a log write of the router: a commit that raised leaves
\* the session failed, and the except clause rolls it back
session_after_log(committed) ==
    IF committed THEN "clean" ELSE rollback("failed")

\* results of the commit of a log row: a failed session refuses every
\* commit until it is rolled back
CommitOutcomes ==
    IF session = "failed" THEN {FALSE}
    ELSE IF db_faulty THEN {TRUE, FALSE} ELSE {TRUE}

marks_unhealthy_on_failure(d, provider, status) ==
    [p \in DOMAIN d |->
        IF p = provider /\ status = 500
          THEN [d[p] EXCEPT !.health =
                  <<[is_healthy |-> FALSE, consecutive_failures |-> 1,
                     error_message |-> <<"e">>]>>]
          ELSE d[p]]

\* the provider_health rows after the router committed a request_logs row:
\* the router's session holds the new RequestLog and nothing else
health_after_log_write(d, provider, status) == d

---------------------------------------------------------------------------
\* Unary request: create_chat_completion -> route_request -> _try_provider

NoResponse == [provider |-> "", usage |-> None]
NoFrames == <<>>
NoStreamState == [last_chunk |-> None, accumulated_content |-> <<>>]

InitRequest ==
    /\ \E p \in Providers, fb \in SeqsUpTo(Providers, MaxFallbacks) :
          chain = <<p>> \o fb
    /\ reqRetry \in {None} \cup {<<n>> : n \in 0..RetryCountMax}
    /\ enabled \in SUBSET Providers
    /\ logs = <<>>
    /\ httpStatus = 0

InitUnary ==
    /\ idx = 1
    /\ attempt = 0
    /\ trace = <<>>
    /\ last_error = ""
    /\ last_errors = <<>>
    /\ response = NoResponse
    /\ raised = <<>>

InitStreamIdle ==
    /\ emitted = NoFrames
    /\ delivered = NoFrames
    /\ last_chunk = None
    /\ stream_state = NoStreamState
    /\ streamCalls = <<>>
    /\ outcome = ""

HealthRow(h, cf, em) ==
    [is_healthy |-> h, consecutive_failures |-> cf, error_message |-> em]

ProviderRow(e, pr, w, health) ==
    [enabled |-> e, priority |-> pr, weight |-> w, health |-> health]

NoResult == [op |-> "none", ok |-> FALSE, value |-> <<>>, hit |-> FALSE,
             data |-> <<>>, fallback |-> <<>>]

\* the prober task between two passes, nothing probed yet
\* the session of a pass of the prober loop and the session of one
\* manual_check call, each opened with `async with AsyncSessionLocal()`
Sessions == {"tick", "manual"}

InitProberIdle ==
    /\ ppc = "sleeping"
    /\ batch = {}
    /\ todo = {}
    /\ probed = {}
    /\ lastProbe = [p \in Providers |-> "none"]
    /\ fails = [p \in Providers |-> 0]
    /\ spc = [s \in Sessions |-> "idle"]
    /\ snap = [s \in Sessions |-> None]
    /\ sres = [s \in Sessions |-> None]

\* the fleet is not consulted: the request names its provider
InitFleetIdle ==
    /\ db = [p \in Providers |-> ProviderRow(TRUE, 100, 100, None)]
    /\ cache = None
    /\ result = NoResult
    /\ InitProberIdle

\* no adapter generator exists
InitAdapterIdle ==
    /\ adapter = ""
    /\ upstream = <<>>
    /\ frames = <<>>
    /\ apc = "idle"

\* key families that admin writes invalidate
Families == {"providers", "models", "model-providers"}

\* no helper is being called on its own
InitCallIdle ==
    /\ args = None
    /\ ret = None

\* nothing cached, no admin write yet
\* requests of one identifier that can be inside RateLimiter.__call__ at
\* the same time
LimiterCalls == {"r1", "r2"}

InitAdminIdle ==
    /\ kv = <<>>
    /\ written = [f \in Families |-> 0]
    /\ served = None
    /\ rl = None
    /\ lpc = [c \in LimiterCalls |-> "idle"]
    /\ seen = [c \in LimiterCalls |-> None]
    /\ verdict = [c \in LimiterCalls |-> "none"]
    /\ started = 0

\* no caller, no session in use
InitRequestIdle ==
    /\ authorization = None
    /\ x_api_key = None
    /\ api_keys = {}
    /\ hint = None
    /\ db_faulty = FALSE
    /\ session = "clean"
    /\ cancelled = FALSE
    /\ adapter_timeout = None

\* no request is being served
InitEnvIdle ==
    /\ InitRequestIdle
    /\ InitAdminIdle
    /\ InitCallIdle

\* no request is in flight
InitLifecycleIdle ==
    /\ chain = <<>>
    /\ reqRetry = None
    /\ messages = <<>>
    /\ enabled = {}
    /\ logs = <<>>
    /\ httpStatus = 0
    /\ InitUnary
    /\ InitStreamIdle
    /\ pc = "idle"

\* a caller that passed verify_api_key under the default settings (empty
\* allow-list), a request without a timeout hint, a database that commits
InitAuthenticated ==
    /\ InitAdminIdle
    /\ InitCallIdle
    /\ authorization = None
    /\ x_api_key = <<"good">>
    /\ api_keys = {}
    /\ hint = None
    /\ db_faulty = FALSE
    /\ session = "clean"
    /\ cancelled = FALSE
    /\ adapter_timeout = None

Init ==
    /\ InitRequest
    /\ messages = <<>>
    /\ InitUnary
    /\ InitStreamIdle
    /\ InitAdapterIdle
    /\ InitFleetIdle
    /\ InitAuthenticated
    /\ pc = "route"

\* _try_provider, up to the loop: the provider is looked up once; a missing
\* or disabled provider raises before any attempt and before any log row,
\* and route_request records the error and moves to the next name.
GetProvider ==
    /\ pc = "route"
    /\ idx <= Len(chain)
    /\ IF get_provider(chain[idx], enabled)
         THEN /\ pc' = "attempt"
              /\ attempt' = 0
              /\ UNCHANGED <<idx, last_errors>>
         ELSE /\ last_errors' = record_error(last_errors, chain[idx],
                                     ProviderError("not found or disabled", 0, ""))
              /\ idx' = idx + 1
              /\ UNCHANGED <<pc, attempt>>
    /\ last_error' = ""
    /\ UNCHANGED <<notLifecycle, reqVars, logs, httpStatus, trace, response, raised, streamVars>>

\* what no step of a request changes outside the lifecycle variables
requestFrame ==
    <<adapterVars, balancerVars, proberVars, adminVars, callVars, authVars, hint,
      db_faulty>>

\* _try_provider after the loop: the provider's failure row and the
\* exception, caught by route_request, which moves to the next name.
Exhaust(e, n) ==
    /\ \E w \in CommitOutcomes :
         /\ logs' = write_log(logs, log_failed_request(logs, chain[idx], e), w)
         /\ session' = session_after_log(w)
         /\ last_errors' = record_error(last_errors, chain[idx],
                              IF log_write_raises(w)
                                THEN ProviderError("log write failed", n, "log")
                                ELSE ProviderError("failed after attempts", n, e))
    /\ db' = health_after_log_write(db, chain[idx], 500)
    /\ idx' = idx + 1
    /\ pc' = "route"

\* `for attempt in range(retry_count + 1)`: the next iteration, or the end
\* of the loop.
LoopNext(e) ==
    IF attempt + 1 <= retry_count(reqRetry)
      THEN /\ attempt' = attempt + 1
           /\ pc' = "attempt"
           /\ UNCHANGED <<logs, last_errors, idx, session, db>>
      ELSE /\ Exhaust(e, retry_count(reqRetry) + 1)
           /\ UNCHANGED attempt

\* the `except Exception` clause of the attempt: a sleep follows only when a
\* retry is left.
AfterFailedAttempt(e) ==
    IF sleeps_after(attempt, retry_count(reqRetry))
      THEN /\ pc' = "sleep"
           /\ UNCHANGED <<logs, last_errors, idx, attempt, session, db>>
      ELSE LoopNext(e)

\* One attempt whose upstream call succeeds: the adapter is created with
\* the attempt's timeout, the success row is written (or its commit raises
\* inside _log_request) and route_request labels the response and returns.
AttemptSucceeds ==
    /\ pc = "attempt"
    /\ trace' = Append(trace, Call(idx, chain[idx], attempt, TRUE))
    /\ adapter_timeout' = <<attempt_timeout(hint, provider_timeout)>>
    /\ \E u \in ResponseUsages, w \in CommitOutcomes :
         IF log_write_raises(w) /\ except_Exception_catches("log")
           THEN /\ last_error' = "log"
                /\ AfterFailedAttempt("log")
                /\ UNCHANGED response
           ELSE /\ logs' = write_log(logs, log_request(logs, chain[idx], u), w)
                /\ session' = session_after_log(w)
                /\ db' = health_after_log_write(db, chain[idx], 200)
                /\ response' = [provider |-> response_provider(chain[1], chain[idx]),
                                usage |-> u]
                /\ pc' = "returned"
                /\ UNCHANGED <<idx, attempt, last_error, last_errors>>
    /\ UNCHANGED <<requestFrame, cancelled, reqVars, httpStatus, raised, streamVars>>

\* One attempt whose adapter cannot be created or whose upstream call
\* raises: every exception is handled by the same `except Exception`.
AttemptFails ==
    /\ pc = "attempt"
    /\ trace' = Append(trace, Call(idx, chain[idx], attempt, FALSE))
    /\ adapter_timeout' = <<attempt_timeout(hint, provider_timeout)>>
    /\ \E e \in ErrorKinds :
         /\ last_error' = e
         /\ AfterFailedAttempt(e)
    /\ UNCHANGED <<requestFrame, cancelled, reqVars, httpStatus, response, raised,
                   streamVars>>

\* The backoff sleep, then the next iteration of the loop.
BackoffSleep ==
    /\ pc = "sleep"
    /\ trace' = Append(trace, Sleep(idx, chain[idx], attempt, wait_time(attempt)))
    /\ LoopNext(last_error)
    /\ UNCHANGED <<requestFrame, cancelled, adapter_timeout, reqVars, httpStatus,
                   last_error, response, raised, streamVars>>

\* route_request after the loop over provider_names: all providers failed.
RaiseAllFailed ==
    /\ pc = "route"
    /\ idx > Len(chain)
    /\ raised' = <<last_errors>>
    /\ pc' = "raised"
    /\ UNCHANGED <<notLifecycle, reqVars, logs, httpStatus, idx, attempt, trace, last_error,
                   last_errors, response, streamVars>>

\* the handler's own failure row: `except Exception as log_error` logs the
\* error and does not roll back
session_after_handler_log(committed) == IF committed THEN "clean" ELSE "failed"

\* create_chat_completion, `except Exception`: one more failed-request row,
\* without a provider, and HTTP 500.
HandleException ==
    /\ pc = "raised"
    /\ \E w \in CommitOutcomes :
         /\ logs' = write_log(logs,
                        log_failed_request(logs, "None", "All providers failed"), w)
         /\ session' = session_after_handler_log(w)
    /\ db' = health_after_log_write(db, "None", 500)
    /\ httpStatus' = 500
    /\ pc' = "done"
    /\ UNCHANGED <<requestFrame, cancelled, adapter_timeout, reqVars, unaryVars,
                   streamVars>>

\* create_chat_completion, the non-streaming branch after route_request.
ReturnResponse ==
    /\ pc = "returned"
    /\ httpStatus' = 200
    /\ pc' = "done"
    /\ UNCHANGED <<notLifecycle, reqVars, logs, unaryVars, streamVars>>

Next ==
    \/ GetProvider
    \/ AttemptSucceeds
    \/ AttemptFails
    \/ BackoffSleep
    \/ RaiseAllFailed
    \/ HandleException
    \/ ReturnResponse

Spec == Init /\ [][Next]_vars

\* The same request when every upstream call, every sleep and every
\* database call returns: a step that can be taken is eventually taken.
InitReturning ==
    /\ \E p \in Providers, fb \in SeqsUpTo(Providers, 1) : chain = <<p>> \o fb
    /\ reqRetry \in {None} \cup {<<n>> : n \in 0..RetryCountMax}
    /\ enabled \in SUBSET Providers
    /\ logs = <<>>
    /\ httpStatus = 0
    /\ messages = <<>>
    /\ InitUnary
    /\ InitStreamIdle
    /\ InitAdapterIdle
    /\ InitFleetIdle
    /\ InitAuthenticated
    /\ pc = "route"

SpecReturning == InitReturning /\ [][Next]_vars /\ WF_vars(Next)

\* A unary request while an admin disables providers.

InitLive ==
    /\ \E p \in Providers, fb \in SeqsUpTo(Providers, 1) : chain = <<p>> \o fb
    /\ reqRetry \in {<<1>>, <<2>>}
    /\ enabled \in SUBSET Providers
    /\ logs = <<>>
    /\ httpStatus = 0
    /\ messages = <<>>
    /\ InitUnary
    /\ InitStreamIdle
    /\ InitAdapterIdle
    /\ db = [p \in Providers |-> ProviderRow(p \in enabled, 100, 100, None)]
    /\ cache = None
    /\ result = NoResult
    /\ InitProberIdle
    /\ InitAuthenticated
    /\ pc = "route"

\* PATCH /providers/{id} with enabled = false, in its own session: the row
\* is updated and committed; the key deleted afterwards is no key the
\* dispatcher reads
AdminDisablesProvider ==
    /\ \E p \in enabled :
         /\ enabled' = enabled \ {p}
         /\ db' = [db EXCEPT ![p].enabled = FALSE]
    /\ UNCHANGED <<chain, reqRetry, messages, pc, logs, httpStatus, unaryVars,
                   streamVars, adapterVars, balancerVars, proberVars, envVars>>

NextLive ==
    \/ AdminDisablesProvider
    \/ Next

SpecLive == InitLive /\ [][NextLive]_vars

---------------------------------------------------------------------------
\* Token estimator (app/services/token_estimator.py)

Raise == [ok |-> FALSE, value |-> 0]
Return(v) == [ok |-> TRUE, value |-> v]

Count(str, ch) == Cardinality({i \in DOMAIN str : str[i] = ch})

\* estimate_messages_tokens(request.messages): the messages are ChatMessage
\* objects, which have no .get, so the first message raises AttributeError;
\* with no message at all the pattern '[a-zA-Z0-9\s\p{P}]' raises re.error
\* (bad escape \p). No call returns a number.
estimate_messages_tokens(msgs) ==
    IF Len(msgs) > 0 THEN Raise ELSE Raise

\* estimate_completion_tokens(content):
\* int(english_chars / 4.0 + chinese_chars / 1.5), at least 1; 0 for "".
estimate_completion_tokens(content) ==
    IF Len(content) = 0 THEN 0
    ELSE LET english_chars == Count(content, "e")
             chinese_chars == Len(content) - english_chars
             estimated_tokens == (3 * english_chars + 8 * chinese_chars) \div 12
         IN  IF estimated_tokens > 1 THEN estimated_tokens ELSE 1

\* longest completion content explored ("Hello world" has 11 characters)
MaxContentLen == 11

CharClasses == {"e", "c"}

EstimatorArgs(fn, content, msgs) == [fn |-> fn, content |-> content, msgs |-> msgs]

\* request.messages, each message given by its content
MessageLists == {<< <<"e", "e">> >>, << <<"e">>, <<"c", "e">> >>}

\* one call of one of the two estimators, on its own
InitEstimator ==
    /\ \/ \E c \in SeqsUpTo(CharClasses, MaxContentLen) :
             args = EstimatorArgs("estimate_completion_tokens", c, <<>>)
       \/ \E m \in MessageLists \cup {<<>>} :
             args = EstimatorArgs("estimate_messages_tokens", <<>>, m)
    /\ ret = None
    /\ InitRequestIdle
    /\ InitAdminIdle
    /\ InitLifecycleIdle
    /\ InitAdapterIdle
    /\ InitFleetIdle

\* TokenEstimator.estimate_completion_tokens(content)
EstimateCompletion ==
    /\ ret = None
    /\ args.fn = "estimate_completion_tokens"
    /\ ret' = <<Return(estimate_completion_tokens(args.content))>>
    /\ UNCHANGED <<notCall, args>>

\* TokenEstimator.estimate_messages_tokens(messages)
EstimateMessages ==
    /\ ret = None
    /\ args.fn = "estimate_messages_tokens"
    /\ ret' = <<estimate_messages_tokens(args.msgs)>>
    /\ UNCHANGED <<notCall, args>>

NextEstimator ==
    \/ EstimateCompletion
    \/ EstimateMessages

SpecEstimator == InitEstimator /\ [][NextEstimator]_vars

\* Request translation, one call on its own.

\* longest request.messages explored
MaxMessages == 2

\* MessageRole
Roles == {"system", "user", "assistant", "function", "tool"}

\* ChatMessage.content: Optional[str]
MessageContents == {None, <<"">>, <<"a">>, <<"b">>}

ChatMessage(role, content) == [role |-> role, content |-> content]

ChatMessages == {ChatMessage(r, c) : r \in Roles, c \in MessageContents}

TranslateArgs(fn, msgs) == [fn |-> fn, messages |-> msgs]

\* Python truthiness of an Optional[str]: None and "" are falsy
Truthy(content) == content # None /\ content[1] # ""

MaxOf(S) == CHOOSE k \in S : \A m \in S : k >= m

\* the value of system_message / system_instruction after the loop: the
\* content of the last message of role system, None when there is none
last_system(msgs) ==
    LET S == {i \in DOMAIN msgs : msgs[i].role = "system"}
    IN  IF S = {} THEN None ELSE msgs[MaxOf(S)].content

NotSystem(m) == m.role # "system"

\* the list built by the loop: one entry for every message whose role is
\* not system, with role "user" for a user message and `other` for the rest
outgoing_messages(msgs, other) ==
    LET kept == SelectSeq(msgs, NotSystem)
    IN  [i \in DOMAIN kept |->
            ChatMessage(IF kept[i].role = "user" THEN "user" ELSE other,
                        kept[i].content)]

\* the field is set only `if system_message:`
system_field(msgs) ==
    IF Truthy(last_system(msgs)) THEN <<last_system(msgs)[1]>> ELSE None

Translated(msgs, system) == [messages |-> msgs, system |-> system]

\* AnthropicProvider._convert_to_anthropic_format: "messages" and "system"
convert_to_anthropic_format(msgs) ==
    Translated(outgoing_messages(msgs, "assistant"), system_field(msgs))

\* GeminiProvider._convert_to_gemini_format: "contents" and
\* "systemInstruction"
convert_to_gemini_format(msgs) ==
    Translated(outgoing_messages(msgs, "model"), system_field(msgs))

InitTranslate ==
    /\ \E fn \in {"_convert_to_anthropic_format", "_convert_to_gemini_format"} :
       \E msgs \in SeqsUpTo(ChatMessages, MaxMessages) :
          args = TranslateArgs(fn, msgs)
    /\ ret = None
    /\ InitRequestIdle
    /\ InitAdminIdle
    /\ InitLifecycleIdle
    /\ InitAdapterIdle
    /\ InitFleetIdle

ConvertToAnthropic ==
    /\ ret = None
    /\ args.fn = "_convert_to_anthropic_format"
    /\ ret' = <<convert_to_anthropic_format(args.messages)>>
    /\ UNCHANGED <<notCall, args>>

ConvertToGemini ==
    /\ ret = None
    /\ args.fn = "_convert_to_gemini_format"
    /\ ret' = <<convert_to_gemini_format(args.messages)>>
    /\ UNCHANGED <<notCall, args>>

NextTranslate ==
    \/ ConvertToAnthropic
    \/ ConvertToGemini

SpecTranslate == InitTranslate /\ [][NextTranslate]_vars

---------------------------------------------------------------------------
\* SSE frames. Every frame an adapter yields starts with "data: "; body says
\* what follows the prefix: a JSON object, text that json.loads rejects, or
\* the literal [DONE].

Usage(present, value) == [present |-> present, value |-> value]
NoUsage   == Usage(FALSE, None)       \* no "usage" key
NullUsage == Usage(TRUE, None)        \* "usage": null
ZeroUsage == Usage(TRUE, <<0, 0, 0>>)
SomeUsage == Usage(TRUE, <<7, 4, 11>>)

Frame(body, usage, content) == [body |-> body, usage |-> usage, content |-> content]
DoneFrame    == Frame("[DONE]", NoUsage, <<>>)
GarbageFrame == Frame("garbage", NoUsage, <<>>)

Contents == {<<>>, <<"e">>, <<"c">>}

Frames ==
    {Frame("json", NoUsage, c) : c \in Contents}
    \cup {Frame("json", u, <<>>) : u \in {NullUsage, ZeroUsage, SomeUsage}}
    \cup {GarbageFrame, DoneFrame}

\* most frames one upstream stream emits
MaxFrames == 3

\* chunk.startswith("data: ") and not chunk.startswith("data: [DONE]")
is_tracked(chunk) == chunk.body # "[DONE]"

yield_data_only(chunk) == IF is_tracked(chunk) THEN <<chunk>> ELSE <<>>

\* route_streaming_request: `yield chunk`, once for every chunk of the adapter
router_yield(chunk) == <<chunk>>

\* tracked_stream: `yield chunk`, once for every chunk of the router
tracked_yield(chunk) == <<chunk>>

\* route_streaming_request, after the loop: usage of the last tracked chunk.
\* json.JSONDecodeError and KeyError are caught; usage.get on a null usage
\* raises AttributeError, which leaves through the outer `except Exception`.
extract_usage(lc) ==
    IF lc = None THEN Return(None)
    ELSE IF lc[1].body # "json" THEN Return(None)
    ELSE IF ~ lc[1].usage.present THEN Return(None)
    ELSE IF lc[1].usage.value = None THEN Raise
    ELSE IF lc[1].usage.value[3] > 0 THEN Return(lc[1].usage.value)
    ELSE Return(None)

\* tracked_stream, per chunk: remember the last tracked chunk and append
\* choices[0].delta.content to the accumulated content (parse errors ignored).
track(st, chunk) ==
    IF is_tracked(chunk)
      THEN [last_chunk |-> <<chunk>>,
            accumulated_content |->
                IF chunk.body = "json"
                  THEN st.accumulated_content \o chunk.content
                  ELSE st.accumulated_content]
      ELSE st

\* tracked_stream, finally: usage_info for the row. Every exception of the
\* block (parse error, estimator error) leaves usage_info = None.
finaliser_usage(st, msgs) ==
    IF st.last_chunk = None THEN None
    ELSE IF st.last_chunk[1].body # "json" THEN None
    ELSE LET u == st.last_chunk[1].usage IN
         IF u.present /\ u.value # None /\ u.value[3] > 0 THEN u.value
         ELSE LET prompt_tokens == estimate_messages_tokens(msgs)
                  completion_tokens ==
                      estimate_completion_tokens(st.accumulated_content)
              IN  IF prompt_tokens.ok
                    THEN <<prompt_tokens.value, completion_tokens,
                           prompt_tokens.value + completion_tokens>>
                    ELSE None

retry_stream_on_error == "stream_start"

\* route_streaming_request, `except Exception as e: ... raise`: after the
\* failure row the exception is re-raised to the consumer, which runs its
\* finaliser; the stream call is not made again.
on_stream_error == "finally"

\* _log_streaming_request and the finaliser's RequestLog: status 200 and the
\* three token fields of usage_info, None when there is no usage_info.
log_streaming_request(rows, provider, usage_info) ==
    Append(rows, LogRow(provider, 200, usage_info, None))

---------------------------------------------------------------------------
\* Streaming request: create_chat_completion -> tracked_stream ->
\* route_streaming_request -> adapter.chat_completion_stream

InitStream ==
    /\ \E p \in Providers, fb \in SeqsUpTo(Providers, 1) : chain = <<p>> \o fb
    /\ reqRetry = <<max_retry_count>>
    /\ enabled \in SUBSET Providers
    /\ messages \in MessageLists
    /\ logs = <<>>
    /\ httpStatus = 0
    /\ InitUnary
    /\ InitStreamIdle
    /\ InitAdapterIdle
    /\ InitFleetIdle
    /\ InitAuthenticated
    /\ pc = "stream_start"

\* route_streaming_request up to the loop: a missing or disabled provider
\* raises before the try block (no row from the router); otherwise the one
\* upstream stream call is made.
StreamGetProvider ==
    /\ pc = "stream_start"
    /\ httpStatus' = 200
    /\ IF get_provider(chain[1], enabled)
         THEN /\ streamCalls' = Append(streamCalls, chain[1])
              /\ adapter_timeout' = <<attempt_timeout(hint, provider_timeout)>>
              /\ pc' = "streaming"
              /\ UNCHANGED outcome
         ELSE /\ outcome' = "error"
              /\ pc' = "finally"
              /\ UNCHANGED <<streamCalls, adapter_timeout>>
    /\ UNCHANGED <<requestFrame, db, session, cancelled, reqVars, logs, unaryVars, emitted,
                   delivered, last_chunk, stream_state>>

\* One frame from the adapter through both generators to the caller.
StreamChunk ==
    /\ pc = "streaming"
    /\ Len(emitted) < MaxFrames
    /\ IF emitted = <<>> THEN TRUE ELSE emitted[Len(emitted)] # DoneFrame
    /\ \E chunk \in Frames :
         /\ emitted' = Append(emitted, chunk)
         /\ last_chunk' = IF is_tracked(chunk) THEN <<chunk>> ELSE last_chunk
         /\ LET fromRouter == router_yield(chunk)
                toCaller == IF fromRouter = <<>> THEN <<>>
                            ELSE tracked_yield(fromRouter[1])
            IN  /\ stream_state' = IF fromRouter = <<>> THEN stream_state
                                   ELSE track(stream_state, fromRouter[1])
                /\ delivered' = delivered \o toCaller
    /\ UNCHANGED <<notLifecycle, reqVars, pc, logs, httpStatus, unaryVars, streamCalls, outcome>>

\* The adapter's stream ends: the router extracts the usage and writes its
\* row; an exception of the extraction takes the failure path.
StreamCompleted ==
    /\ pc = "streaming"
    /\ LET u == extract_usage(last_chunk) IN
         IF u.ok
           THEN /\ logs' = log_streaming_request(logs, chain[1], u.value)
                /\ outcome' = "completed"
                /\ UNCHANGED raised
           ELSE /\ logs' = log_failed_request(logs, chain[1], "AttributeError")
                /\ outcome' = "error"
                /\ raised' = <<"AttributeError">>
    /\ pc' = "finally"
    /\ UNCHANGED <<notLifecycle, reqVars, httpStatus, idx, attempt, trace, last_error,
                   last_errors, response, emitted, delivered, last_chunk,
                   stream_state, streamCalls>>

\* The adapter raises while the stream is read: `except Exception as e`
\* writes the failure row with str(e) and re-raises e, which leaves
\* tracked_stream through its finally block.
StreamRaises ==
    /\ pc = "streaming"
    /\ \E e \in ErrorKinds :
         /\ logs' = log_failed_request(logs, chain[1], e)
         /\ raised' = <<e>>
    /\ outcome' = "error"
    /\ pc' = on_stream_error
    /\ UNCHANGED <<notLifecycle, reqVars, httpStatus, idx, attempt, trace, last_error,
                   last_errors, response, emitted, delivered, last_chunk,
                   stream_state, streamCalls>>

\* The caller goes away: the generators are closed with GeneratorExit /
\* CancelledError, which `except Exception` does not catch.
CallerDisconnects ==
    /\ pc = "streaming"
    /\ outcome' = "disconnected"
    /\ pc' = "finally"
    /\ UNCHANGED <<notLifecycle, reqVars, logs, httpStatus, unaryVars, emitted, delivered,
                   last_chunk, stream_state, streamCalls>>

\* tracked_stream, finally: when the provider row is found, one row with
\* status 200 and the extracted or estimated usage.
TrackedFinally ==
    /\ pc = "finally"
    /\ logs' = IF chain[1] \in enabled
                 THEN log_streaming_request(logs, chain[1],
                                            finaliser_usage(stream_state, messages))
                 ELSE logs
    /\ pc' = "stream_done"
    /\ UNCHANGED <<notLifecycle, reqVars, httpStatus, unaryVars, streamVars>>

NextStream ==
    \/ StreamGetProvider
    \/ StreamChunk
    \/ StreamCompleted
    \/ StreamRaises
    \/ CallerDisconnects
    \/ TrackedFinally

SpecStream == InitStream /\ [][NextStream]_vars

---------------------------------------------------------------------------
\* The adapters' chat_completion_stream: upstream SSE lines in, frames out

Adapters == {"openai", "anthropic", "gemini"}

\* most upstream lines of one response explored
MaxLines == 3

\* Upstream lines, by what the parsers tell apart:
\*   "empty"       the empty line
\*   "comment"     a line that starts with ":"
\*   "event"       another field, such as "event: message_stop"
\*   "done"        "data: [DONE]"
\*   "done_ws"     "data: [DONE]" followed by white space
\*   "blank_data"  "data: " followed by white space only
\*   "chunk"       "data: " and JSON that is (converted to) a chunk
\*   "skip_json"   "data: " and JSON that the converter maps to None
\*   "bad_json"    "data: " and a payload that is not JSON
\*   "usage_delta" "data: " and a JSON event that reports the usage and has
\*                 nothing to show (Anthropic message_delta, a Gemini chunk
\*                 without candidates, the usage chunk of an
\*                 OpenAI-compatible upstream)
\*   "usage_stop"  "data: " and a JSON event that reports the usage and
\*                 ends the message (message_stop, a finishing candidate)
LineKinds == {"empty", "comment", "event", "done", "done_ws", "blank_data",
              "chunk", "skip_json", "bad_json", "usage_delta", "usage_stop"}

UsageLines == {"usage_delta", "usage_stop"}

starts_with_data(line) == line \notin {"empty", "comment", "event"}

ChunkFrame == Frame("json", NoUsage, <<"e">>)

\* an upstream chunk forwarded with its usage object
UsageFrame == Frame("json", SomeUsage, <<>>)

\* the chunk _convert_stream_chunk builds for the end of a message:
\* delta {} and a finish_reason, no "usage" key
StopFrame == Frame("json", NoUsage, <<>>)

\* AnthropicProvider._convert_stream_chunk and
\* GeminiProvider._convert_stream_chunk: a chunk for a text delta, a chunk
\* for the end of the message, None for every other event; no branch
\* copies the usage of the event.
converted(line) ==
    IF line = "chunk" THEN <<ChunkFrame>>
    ELSE IF line = "usage_stop" THEN <<StopFrame>>
    ELSE <<>>

\* what one line makes the generator do
Step(out, stop) == [out |-> out, stop |-> stop]

\* OpenAIProvider._stream_response, one iteration of the loop: the payload
\* is stripped before it is compared and is forwarded without being parsed.
openai_line(line) ==
    IF ~starts_with_data(line) THEN Step(<<>>, FALSE)
    ELSE IF line \in {"done", "done_ws"} THEN Step(<<DoneFrame>>, TRUE)
    ELSE IF line = "blank_data" THEN Step(<<>>, FALSE)
    ELSE IF line = "bad_json" THEN Step(<<GarbageFrame>>, FALSE)
    ELSE IF line \in UsageLines THEN Step(<<UsageFrame>>, FALSE)
    ELSE Step(<<ChunkFrame>>, FALSE)

\* AnthropicProvider.chat_completion_stream, one iteration: the payload is
\* compared unstripped, then parsed and converted; what fails to parse or
\* converts to None yields nothing.
anthropic_line(line) ==
    IF ~starts_with_data(line) THEN Step(<<>>, FALSE)
    ELSE IF line = "done" THEN Step(<<DoneFrame>>, TRUE)
    ELSE IF line \in {"done_ws", "blank_data", "bad_json"} THEN Step(<<>>, FALSE)
    ELSE Step(converted(line), FALSE)

\* GeminiProvider.chat_completion_stream, one iteration: the same loop.
gemini_line(line) ==
    IF ~starts_with_data(line) THEN Step(<<>>, FALSE)
    ELSE IF line = "done" THEN Step(<<DoneFrame>>, TRUE)
    ELSE IF line \in {"done_ws", "blank_data", "bad_json"} THEN Step(<<>>, FALSE)
    ELSE Step(converted(line), FALSE)

adapter_line(kind, line) ==
    IF kind = "openai" THEN openai_line(line)
    ELSE IF kind = "anthropic" THEN anthropic_line(line)
    ELSE gemini_line(line)

InitAdapter ==
    /\ adapter \in Adapters
    /\ upstream = <<>>
    /\ frames = <<>>
    /\ apc = "open"
    /\ InitLifecycleIdle
    /\ InitFleetIdle
    /\ InitEnvIdle

\* client.stream(...) / raise_for_status() / aiter_lines() raises
AdapterRaises ==
    /\ apc \in {"open", "reading"}
    /\ apc' = "failed"
    /\ UNCHANGED <<notAdapter, adapter, upstream, frames>>

\* the response is accepted and the loop over the lines starts
AdapterOpens ==
    /\ apc = "open"
    /\ apc' = "reading"
    /\ UNCHANGED <<notAdapter, adapter, upstream, frames>>

\* one upstream line: `break` after [DONE] ends the generator
AdapterLine ==
    /\ apc = "reading"
    /\ Len(upstream) < MaxLines
    /\ \E line \in LineKinds :
         LET st == adapter_line(adapter, line) IN
         /\ upstream' = Append(upstream, line)
         /\ frames' = frames \o st.out
         /\ apc' = IF st.stop THEN "completed" ELSE "reading"
    /\ UNCHANGED <<notAdapter, adapter>>

\* the upstream response ends: the loop and the generator end
AdapterUpstreamEnds ==
    /\ apc = "reading"
    /\ apc' = "completed"
    /\ UNCHANGED <<notAdapter, adapter, upstream, frames>>

NextAdapter ==
    \/ AdapterOpens
    \/ AdapterLine
    \/ AdapterUpstreamEnds
    \/ AdapterRaises

SpecAdapter == InitAdapter /\ [][NextAdapter]_vars

---------------------------------------------------------------------------
\* The load balancer (app/services/balancer.py) over the provider store

\* Provider.priority and Provider.weight values explored
Priorities == {1, 2}
Weights == {0, 1}

\* provider_health of one provider: no row, a healthy row, an unhealthy row
HealthStates == {None, <<HealthRow(TRUE, 0, None)>>, <<HealthRow(FALSE, 0, None)>>}

ProviderRows ==
    {ProviderRow(e, pr, w, h) :
        e \in BOOLEAN, pr \in Priorities, w \in Weights, h \in HealthStates}

ignores_health(health) == TRUE

\* _get_healthy_providers: `health is None or health.is_healthy`
row_is_healthy(health) == IF health = None THEN TRUE ELSE health[1].is_healthy

\* one dictionary of providers_data
Entry(name, row) ==
    [name |-> name, weight |-> row.weight, priority |-> row.priority,
     is_healthy |-> row_is_healthy(row.health)]

\* the rows the query keeps (enabled) and the loop keeps (healthy)
Kept(d) == {p \in Providers : d[p].enabled /\ row_is_healthy(d[p].health)}

\* ORDER BY priority DESC: rows of equal priority come in any order
Orderings(d, S) ==
    {sq \in [1..Cardinality(S) -> S] :
        /\ \A i, j \in DOMAIN sq : i # j => sq[i] # sq[j]
        /\ \A i, j \in DOMAIN sq : i < j => d[sq[i]].priority >= d[sq[j]].priority}

\* _get_healthy_providers: the lists the query can return
get_healthy_providers(d) ==
    {[i \in DOMAIN sq |-> Entry(sq[i], d[sq[i]])] : sq \in Orderings(d, Kept(d))}

MinOf(S) == CHOOSE k \in S : \A m \in S : k <= m

first_fallback_in_candidate_order(fallback, data) ==
    LET Q == {i \in DOMAIN data :
                 /\ data[i].is_healthy
                 /\ \E k \in DOMAIN fallback : fallback[k] = data[i].name}
    IN  IF Q = {} THEN None ELSE <<data[MinOf(Q)].name>>

\* select_provider, the fallback scan: the outer loop runs over the
\* fallback names, the inner loop over providers_data
first_fallback(fallback, data) ==
    LET Q == {k \in DOMAIN fallback :
                 \E i \in DOMAIN data :
                     data[i].name = fallback[k] /\ data[i].is_healthy}
    IN  IF Q = {} THEN None ELSE <<fallback[MinOf(Q)]>>

RECURSIVE Cumulative(_, _)
\* `cumulative` after i iterations of the selection loop
Cumulative(providers, i) ==
    IF i = 0 THEN 0 ELSE Cumulative(providers, i - 1) + providers[i].weight

total_weight(providers) == Cumulative(providers, Len(providers))

strict_cumulative_selection(providers, rand, pick) ==
    IF Len(providers) = 1 THEN providers[1].name
    ELSE IF total_weight(providers) = 0 THEN providers[pick].name
    ELSE LET H == {i \in DOMAIN providers : rand < Cumulative(providers, i)}
         IN  IF H = {} THEN providers[Len(providers)].name
             ELSE providers[MinOf(H)].name

\* _weighted_random_selection for a non-empty list: rand is the value of
\* random.uniform(0, total_weight), pick the index random.choice draws
weighted_random_selection(providers, rand, pick) ==
    IF Len(providers) = 1 THEN providers[1].name
    ELSE IF total_weight(providers) = 0 THEN providers[pick].name
    ELSE LET H == {i \in DOMAIN providers : rand <= Cumulative(providers, i)}
         IN  IF H = {} THEN providers[Len(providers)].name
             ELSE providers[MinOf(H)].name

\* which call of the random module the function makes
draw_used(providers) ==
    IF Len(providers) = 1 THEN "none"
    ELSE IF total_weight(providers) = 0 THEN "choice"
    ELSE "uniform"

\* the values the random module can give for a list; a value the call does
\* not draw is fixed
DrawValues(providers) ==
    IF draw_used(providers) = "uniform" THEN 0..total_weight(providers) ELSE {0}

DrawPicks(providers) ==
    IF draw_used(providers) = "choice" THEN DOMAIN providers ELSE {1}

BalancerResult(op, ok, value, hit, data, fallback) ==
    [op |-> op, ok |-> ok, value |-> value, hit |-> hit, data |-> data,
     fallback |-> fallback]

select_provider_returns_none(data, hit, fallback, rand, pick) ==
    IF data = <<>>
      THEN BalancerResult("select", TRUE, <<>>, hit, data, fallback)
      ELSE BalancerResult("select", TRUE,
                          <<weighted_random_selection(data, rand, pick)>>,
                          hit, data, fallback)

\* select_provider once providers_data is known: an empty list raises
\* "No healthy providers available"; a non-empty fallback list is scanned
\* first; otherwise, or when no listed name qualifies, the weighted draw
select_provider(data, hit, fallback, rand, pick) ==
    IF data = <<>>
      THEN BalancerResult("select", FALSE, <<>>, hit, data, fallback)
      ELSE LET ff == IF fallback # <<>> THEN first_fallback(fallback, data)
                     ELSE None
           IN  BalancerResult("select", TRUE,
                              IF ff # None THEN ff
                              ELSE <<weighted_random_selection(data, rand, pick)>>,
                              hit, data, fallback)

KeyGreater(a, b) ==
    \/ a.priority > b.priority
    \/ a.priority = b.priority /\ a.weight > b.weight

\* sorted(providers_data, key=(priority, weight), reverse=True): the sort
\* is stable, equal keys keep their order
sorted_providers(data) ==
    [k \in DOMAIN data |->
        data[CHOOSE i \in DOMAIN data :
                Cardinality({j \in DOMAIN data :
                    \/ KeyGreater(data[j], data[i])
                    \/ ~KeyGreater(data[i], data[j]) /\ j < i}) = k - 1]]

\* get_all_healthy_providers once providers_data is known: the names,
\* sorted; an empty list is returned as it is
get_all_healthy_providers(data, hit) ==
    LET sd == sorted_providers(data)
    IN  BalancerResult("get_all", TRUE, [k \in DOMAIN sd |-> sd[k].name],
                       hit, data, <<>>)

\* providers_data of one call: the cached list when the key holds one,
\* else the result of the query
providers_data(c, d) == IF c # None THEN {c[1]} ELSE get_healthy_providers(d)

\* cache.set(cache_key, providers_data, ttl=30) after a miss with a
\* non-empty list; the cache stores nothing when Redis is disabled or fails
cache_set(c, data) ==
    IF c = None /\ data # <<>> THEN {None, <<data>>} ELSE {c}

InitBalancer ==
    /\ db \in [Providers -> ProviderRows]
    /\ cache = None
    /\ result = NoResult
    /\ InitProberIdle
    /\ InitLifecycleIdle
    /\ InitAdapterIdle
    /\ InitEnvIdle

SelectProvider ==
    /\ \E fallback \in SeqsUpTo(Providers, MaxFallbacks) :
       \E data \in providers_data(cache, db) :
       \E rand \in DrawValues(data) :
       \E pick \in (IF data = <<>> THEN {1} ELSE DrawPicks(data)) :
         /\ result' = select_provider(data, cache # None, fallback, rand, pick)
         /\ cache' \in cache_set(cache, data)
    /\ UNCHANGED <<notFleet, db, proberVars>>

GetAllHealthyProviders ==
    /\ \E data \in providers_data(cache, db) :
         /\ result' = get_all_healthy_providers(data, cache # None)
         /\ cache' \in cache_set(cache, data)
    /\ UNCHANGED <<notFleet, db, proberVars>>

\* the 30 seconds of the cached list are over
CacheExpires ==
    /\ cache # None
    /\ cache' = None
    /\ UNCHANGED <<notFleet, db, result, proberVars>>

\* PATCH /providers/{id} with `enabled`: the row is updated and the key
\* "providers:*" is deleted, which is not the balancer's key
AdminUpdateProvider ==
    /\ \E p \in Providers, e \in BOOLEAN :
         /\ db[p].enabled # e
         /\ db' = [db EXCEPT ![p].enabled = e]
    /\ UNCHANGED <<notFleet, balancerVars, proberVars>>

NextBalancer ==
    \/ SelectProvider
    \/ GetAllHealthyProviders
    \/ CacheExpires
    \/ AdminUpdateProvider

SpecBalancer == InitBalancer /\ [][NextBalancer]_vars

\* One call of _weighted_random_selection on its own. The weights are
\* integers (Column(Integer)), so the comparison `rand <= cumulative` gives
\* every draw value of the interval (k - 1, k] the provider it gives k: the
\* integer k >= 1 stands for that interval, 0 for the single value 0.

\* largest weight explored
MaxWeight == 3

Candidates == {"A", "B", "C"}

\* candidate lists: distinct names, any weights
CandidateLists ==
    UNION {{[i \in 1..n |-> [name |-> names[i], weight |-> w[i],
                             priority |-> 0, is_healthy |-> TRUE]] :
              names \in {sq \in [1..n -> Candidates] :
                            \A i, k \in 1..n : i # k => sq[i] # sq[k]},
              w \in [1..n -> 0..MaxWeight]} :
           n \in 1..Cardinality(Candidates)}

DrawArgs(providers, rand, pick) ==
    [fn |-> "_weighted_random_selection", providers |-> providers,
     rand |-> rand, pick |-> pick]

InitDraw ==
    /\ \E providers \in CandidateLists :
       \E rand \in DrawValues(providers) :
       \E pick \in DrawPicks(providers) :
          args = DrawArgs(providers, rand, pick)
    /\ ret = None
    /\ InitRequestIdle
    /\ InitAdminIdle
    /\ InitLifecycleIdle
    /\ InitAdapterIdle
    /\ InitFleetIdle

\* LoadBalancer._weighted_random_selection(providers)
WeightedRandomSelection ==
    /\ ret = None
    /\ ret' = <<[name |-> weighted_random_selection(args.providers, args.rand,
                                                    args.pick),
                 draw |-> draw_used(args.providers)]>>
    /\ UNCHANGED <<notCall, args>>

NextDraw == WeightedRandomSelection

SpecDraw == InitDraw /\ [][NextDraw]_vars

---------------------------------------------------------------------------
\* The prober (app/services/health_check.py) over the provider store

\* settings.health_check_max_errors
max_errors == 5

\* the attributes the ProviderHealth class maps
ProviderHealthColumns ==
    {"id", "provider_id", "is_healthy", "error_count", "last_error",
     "last_status_code", "last_validated_at", "last_success_at",
     "next_retry_at", "consecutive_successes", "provider"}

\* the keyword arguments of the ProviderHealth(...) call for a new record
ConstructorKwargs ==
    {"provider_id", "is_healthy", "consecutive_failures", "total_checks",
     "successful_checks", "last_check"}

\* the attributes the update reads through `+=` before anything is written
ReadBeforeWrite == {"total_checks"}

\* the declarative constructor raises TypeError for a keyword that is not
\* an attribute of the class
constructor_accepts(kwargs) == kwargs \subseteq ProviderHealthColumns

\* reading an attribute the class does not have raises AttributeError
readable(attrs) == attrs \subseteq ProviderHealthColumns

CheckResult(exc, sent, health) == [raised |-> exc, sent |-> sent, health |-> health]

\* check_provider_health, the update of the record after the probe
update_health(h, ok, err) ==
    IF ok THEN HealthRow(TRUE, 0, None)
    ELSE LET cf == h.consecutive_failures + 1
         IN  HealthRow(IF cf >= max_errors THEN FALSE ELSE h.is_healthy,
                       cf, <<err>>)

\* check_provider_health for one provider: the record is fetched or
\* constructed, the probe request is sent (ok tells whether it succeeded),
\* the record is updated.  An exception leaves the function at the
\* statement that raises it.
check_provider_health(health, ok, err) ==
    IF health = None /\ ~constructor_accepts(ConstructorKwargs)
      THEN CheckResult("TypeError", FALSE, health)
    ELSE IF ~readable(ReadBeforeWrite)
      THEN CheckResult("AttributeError", TRUE, health)
    ELSE CheckResult("", TRUE,
                     <<update_health(IF health = None
                                       THEN HealthRow(TRUE, 0, None)
                                       ELSE health[1], ok, err)>>)

\* the store the prober runs on, no balancer call made
InitProber ==
    /\ db \in [Providers ->
                {r \in ProviderRows :
                    r.priority = 1 /\ r.weight = 1}]
    /\ cache = None
    /\ result = NoResult
    /\ InitProberIdle
    /\ InitLifecycleIdle
    /\ InitAdapterIdle
    /\ InitEnvIdle

\* check_all_providers, up to gather: the enabled providers are selected;
\* with none, the pass returns at once
ProberPassStarts ==
    /\ ppc = "sleeping"
    /\ LET sel == {p \in Providers : db[p].enabled} IN
         /\ batch' = sel
         /\ todo' = sel
         /\ ppc' = IF sel = {} THEN "sleeping" ELSE "checking"
    /\ probed' = {}
    /\ UNCHANGED <<notFleet, db, balancerVars, lastProbe, fails, sessionVars>>

\* one task of asyncio.gather(*tasks, return_exceptions=True): the
\* exception of a task is collected, the other tasks run on
CheckProviderHealth ==
    /\ ppc = "checking"
    /\ \E p \in todo, ok \in BOOLEAN, err \in ErrorKinds :
         LET r == check_provider_health(db[p].health, ok, err) IN
         /\ db' = [db EXCEPT ![p].health = r.health]
         /\ todo' = todo \ {p}
         /\ probed' = IF r.sent THEN probed \cup {p} ELSE probed
         /\ lastProbe' = IF r.sent
                           THEN [lastProbe EXCEPT ![p] = IF ok THEN "ok" ELSE "fail"]
                           ELSE lastProbe
         /\ fails' = IF r.sent
                       THEN [fails EXCEPT ![p] = IF ok THEN 0
                                                 ELSE Min(fails[p] + 1, max_errors)]
                       ELSE fails
    /\ UNCHANGED <<notFleet, balancerVars, ppc, batch, sessionVars>>

\* check_all_providers after gather: db.commit(); start() then sleeps
\* check_interval seconds and loops
ProberCommits ==
    /\ ppc = "checking"
    /\ todo = {}
    /\ ppc' = "sleeping"
    /\ UNCHANGED <<notFleet, db, balancerVars, batch, todo, probed, lastProbe, fails, sessionVars>>

NextProber ==
    \/ ProberPassStarts
    \/ CheckProviderHealth
    \/ ProberCommits

SpecProber == InitProber /\ [][NextProber]_vars

\* A pass of the prober loop and a manual_check call that probe the same
\* provider, each in its own session.

SessionArgs(provider, before) ==
    [fn |-> "manual_check", provider |-> provider, before |-> before]

SessionResult(exc, sent, ok) == [raised |-> exc, sent |-> sent, ok |-> ok]

InitSessions ==
    /\ db \in [Providers ->
                {r \in ProviderRows :
                    r.enabled /\ r.priority = 1 /\ r.weight = 1}]
    /\ \E p \in Providers : args = SessionArgs(p, db[p].health)
    /\ ret = None
    /\ cache = None
    /\ result = NoResult
    /\ InitProberIdle
    /\ InitLifecycleIdle
    /\ InitAdapterIdle
    /\ InitRequestIdle
    /\ InitAdminIdle

\* check_provider_health, `select(ProviderHealth).where(provider_id == ...)`:
\* the session loads the committed record, if there is one
SessionSelects ==
    /\ \E s \in Sessions :
         /\ spc[s] = "idle"
         /\ snap' = [snap EXCEPT ![s] = db[args.provider].health]
         /\ spc' = [spc EXCEPT ![s] = "read"]
    /\ UNCHANGED <<notFleet, db, balancerVars, ppc, batch, todo, probed,
                   lastProbe, fails, sres>>

\* check_provider_health from the constructor call to the return: the
\* probe request and the update of the session's copy of the record
SessionChecks ==
    /\ \E s \in Sessions, ok \in BOOLEAN, err \in ErrorKinds :
         /\ spc[s] = "read"
         /\ LET r == check_provider_health(snap[s], ok, err) IN
              /\ snap' = [snap EXCEPT ![s] = r.health]
              /\ sres' = [sres EXCEPT ![s] = <<SessionResult(r.raised, r.sent, ok)>>]
         /\ spc' = [spc EXCEPT ![s] = "checked"]
    /\ UNCHANGED <<notFleet, db, balancerVars, ppc, batch, todo, probed,
                   lastProbe, fails>>

\* `await db.commit()`: the record as the session holds it replaces the
\* committed one. The pass commits after gather(return_exceptions=True)
\* whatever the checks raised; manual_check rolls back and re-raises.
SessionCommits ==
    /\ \E s \in Sessions :
         /\ spc[s] = "checked"
         /\ db' = IF sres[s][1].raised = ""
                    THEN [db EXCEPT ![args.provider].health = snap[s]]
                    ELSE db
         /\ spc' = [spc EXCEPT ![s] = "done"]
    /\ UNCHANGED <<notFleet, balancerVars, ppc, batch, todo, probed,
                   lastProbe, fails, snap, sres>>

NextSessions ==
    \/ SessionSelects
    \/ SessionChecks
    \/ SessionCommits

SpecSessions == InitSessions /\ [][NextSessions]_vars

---------------------------------------------------------------------------
\* A unary request from its arrival: verify_api_key
\* (app/api/dependencies.py), then the handler and the dispatcher, with a
\* caller that may go away and a database whose commits may raise.

Lower(w) == IF w \in {"Bearer", "bearer"} THEN "bearer" ELSE "basic"

\* Authorization headers, as authorization.split() sees them
AuthorizationHeaders ==
    {None, <<"Bearer", "good">>, <<"bearer", "bad">>, <<"Bearer", "bad">>,
     <<"Basic", "good">>, <<"Bearer">>}

XApiKeys == {None, <<"">>, <<"good">>, <<"bad">>}

AllowLists == {{}, {"good"}}

TimeoutHints == {None, <<30>>, <<90>>}

accepts_any_key(authz, xkey, allow) ==
    LET bearer == IF Len(authz) = 2 /\ Lower(authz[1]) = "bearer"
                    THEN <<authz[2]>> ELSE None
        key == IF bearer # None THEN bearer
               ELSE IF xkey # None /\ xkey[1] # "" THEN xkey ELSE None
    IN  IF key = None THEN [ok |-> FALSE, status |-> 401, key |-> None]
        ELSE [ok |-> TRUE, status |-> 0, key |-> key]

\* verify_api_key: the Bearer token of a two-part Authorization header,
\* else a non-empty X-API-Key; 401 without a key, and 401 when the
\* allow-list is not empty and does not hold the key.
verify_api_key(authz, xkey, allow) ==
    LET bearer == IF Len(authz) = 2 /\ Lower(authz[1]) = "bearer"
                    THEN <<authz[2]>> ELSE None
        key == IF bearer # None THEN bearer
               ELSE IF xkey # None /\ xkey[1] # "" THEN xkey ELSE None
    IN  IF key = None THEN [ok |-> FALSE, status |-> 401, key |-> None]
        ELSE IF allow # {} /\ key[1] \notin allow
               THEN [ok |-> FALSE, status |-> 401, key |-> None]
        ELSE [ok |-> TRUE, status |-> 0, key |-> key]

\* health records the store can hold when a request arrives: none yet, or
\* a record of a provider the prober found unhealthy
RequestTimeHealth == {None, <<HealthRow(FALSE, 3, <<"e">>)>>}

InitGateway ==
    /\ \E p \in Providers, fb \in SeqsUpTo(Providers, 1) : chain = <<p>> \o fb
    /\ reqRetry \in {<<1>>, <<2>>}
    /\ enabled \in SUBSET Providers
    /\ messages = <<>>
    /\ logs = <<>>
    /\ httpStatus = 0
    /\ InitUnary
    /\ InitStreamIdle
    /\ InitAdapterIdle
    /\ cache = None
    /\ result = NoResult
    /\ InitProberIdle
    /\ InitAdminIdle
    /\ InitCallIdle
    /\ session = "clean"
    /\ cancelled = FALSE
    /\ adapter_timeout = None
    /\ \/ /\ authorization \in AuthorizationHeaders
          /\ x_api_key \in XApiKeys
          /\ api_keys \in AllowLists
          /\ hint = None
          /\ db_faulty = FALSE
          /\ db = [p \in Providers |-> ProviderRow(TRUE, 100, 100, None)]
       \/ /\ authorization = None
          /\ x_api_key = <<"good">>
          /\ api_keys = {}
          /\ hint \in TimeoutHints
          /\ db_faulty \in BOOLEAN
          /\ \E h \in RequestTimeHealth :
                db = [p \in Providers |-> ProviderRow(TRUE, 100, 100, h)]
    /\ pc = "auth"

\* Depends(verify_api_key): the dependency is resolved before the handler's
\* body runs; its HTTPException is the response.
VerifyApiKey ==
    /\ pc = "auth"
    /\ LET r == verify_api_key(authorization, x_api_key, api_keys)
       IN  IF r.ok
             THEN /\ pc' = "route"
                  /\ UNCHANGED httpStatus
             ELSE /\ pc' = "done"
                  /\ httpStatus' = r.status
    /\ UNCHANGED <<notLifecycle, reqVars, logs, unaryVars, streamVars>>

\* The caller's task is cancelled while the request is suspended in the
\* provider lookup, in the upstream call or in the backoff sleep:
\* CancelledError is raised at that await.  An except clause that catches
\* it treats it as one more failure: of the attempt when raised by the
\* upstream call, of the provider when raised outside the attempt's try.
Cancel ==
    /\ pc \in {"route", "attempt", "sleep"}
    /\ pc = "route" => idx <= Len(chain)
    /\ cancelled' = TRUE
    /\ IF except_Exception_catches("CancelledError")
         THEN IF pc = "attempt"
                THEN /\ last_error' = "cancelled"
                     /\ AfterFailedAttempt("cancelled")
                ELSE /\ last_errors' = record_error(last_errors, chain[idx],
                                           ProviderError("cancelled", 0, ""))
                     /\ idx' = idx + 1
                     /\ pc' = "route"
                     /\ UNCHANGED <<logs, attempt, last_error, session, db>>
         ELSE /\ pc' = "cancelled"
              /\ UNCHANGED <<logs, idx, attempt, last_error, last_errors, session, db>>
    /\ UNCHANGED <<requestFrame, adapter_timeout, reqVars, httpStatus, trace, response,
                   raised, streamVars>>

NextGateway ==
    \/ VerifyApiKey
    \/ Cancel
    \/ Next

SpecGateway == InitGateway /\ [][NextGateway]_vars

---------------------------------------------------------------------------
\* Admin writes (app/api/routes/admin.py) and the cached reads of
\* app/api/routes/models.py over the Redis cache (app/core/cache.py).
\* A key "family:rest" is the record [family, rest]; the value under a key
\* is reduced to the version of the configuration it was built from, the
\* number of admin writes of its family committed before it was stored.

\* most admin writes per family explored
MaxAdminWrites == 2

Key(f, r) == [family |-> f, rest |-> r]

\* keys the read endpoints store: list_models, get_model
CachedKeys == {Key("models", "list"), Key("models", "detail:1")}

\* RedisCache.delete(key): `await self.redis.delete(key)`, DEL of that key
cache_delete(store, key) ==
    [k \in (DOMAIN store) \ {key} |-> store[k]]

\* admin.py after the commit: await cache.delete("<family>:*")
invalidate(store, f) == cache_delete(store, Key(f, "*"))

\* RedisCache.set: the value is stored, or the Redis error is swallowed
kv_set(store, key, v) ==
    {store, [k \in (DOMAIN store) \cup {key} |-> IF k = key THEN v ELSE store[k]]}

\* nothing cached yet, no admin write yet
InitAdmin ==
    /\ InitEnvIdle
    /\ InitLifecycleIdle
    /\ InitAdapterIdle
    /\ InitFleetIdle

\* create / update / delete of a provider, a model or a binding: the
\* change is committed, then the family's key is deleted.
AdminWrite ==
    /\ \E f \in Families :
         /\ written[f] < MaxAdminWrites
         /\ written' = [written EXCEPT ![f] = @ + 1]
         /\ kv' = invalidate(kv, f)
    /\ UNCHANGED <<notAdmin, served, limiterVars>>

\* list_models / get_model: the cached value when the key is there, else
\* the value built from the store, which is then cached.
CachedRead ==
    /\ \E k \in CachedKeys :
         IF k \in DOMAIN kv
           THEN /\ served' = <<kv[k]>>
                /\ UNCHANGED kv
           ELSE /\ served' = <<written[k.family]>>
                /\ kv' \in kv_set(kv, k, written[k.family])
    /\ UNCHANGED <<notAdmin, written, limiterVars>>

\* the TTL of a key runs out
KeyExpires ==
    /\ \E k \in DOMAIN kv : kv' = cache_delete(kv, k)
    /\ UNCHANGED <<notAdmin, written, served, limiterVars>>

NextAdmin ==
    \/ AdminWrite
    \/ CachedRead
    \/ KeyExpires

SpecAdmin == InitAdmin /\ [][NextAdmin]_vars

\* The rate limiter (api/dependencies.py) on the counter of one identifier.

\* RateLimiter.requests_per_minute of the limiter explored
RequestsPerMinute == 2

\* most limiter calls explored
MaxLimiterCalls == 4

Counter(count, ttl) == [count |-> count, ttl |-> ttl]

\* cache.set(key, 1, ttl=60): SETEX writes the value with its expiry
setex(key, value) == <<Counter(value, TRUE)>>

\* cache.increment(key): INCRBY adds to the key and leaves its expiry as
\* it is; a key that does not exist is created from 0, without expiry
incrby(key, amount) ==
    IF key = None THEN <<Counter(amount, FALSE)>>
    ELSE <<Counter(key[1].count + amount, key[1].ttl)>>

InitLimiter ==
    /\ InitAdminIdle
    /\ InitRequestIdle
    /\ InitCallIdle
    /\ InitLifecycleIdle
    /\ InitAdapterIdle
    /\ InitFleetIdle

limiterFrame == <<notAdmin, kv, written, served>>

\* count = await cache.get(key)
LimiterGet ==
    /\ started < MaxLimiterCalls
    /\ \E c \in LimiterCalls :
         /\ lpc[c] = "idle"
         /\ seen' = [seen EXCEPT ![c] = IF rl = None THEN None ELSE <<rl[1].count>>]
         /\ lpc' = [lpc EXCEPT ![c] = "got"]
    /\ started' = started + 1
    /\ UNCHANGED <<limiterFrame, rl, verdict>>

\* `if count is None`: first request in this minute
LimiterSet ==
    /\ \E c \in LimiterCalls :
         /\ lpc[c] = "got"
         /\ seen[c] = None
         /\ rl' = setex(rl, 1)
         /\ lpc' = [lpc EXCEPT ![c] = "idle"]
         /\ verdict' = [verdict EXCEPT ![c] = "admitted"]
    /\ UNCHANGED <<limiterFrame, seen, started>>

\* `elif int(count) >= self.requests_per_minute`: HTTP 429
LimiterRejects ==
    /\ \E c \in LimiterCalls :
         /\ lpc[c] = "got"
         /\ seen[c] # None
         /\ seen[c][1] >= RequestsPerMinute
         /\ lpc' = [lpc EXCEPT ![c] = "idle"]
         /\ verdict' = [verdict EXCEPT ![c] = "rejected"]
    /\ UNCHANGED <<limiterFrame, rl, seen, started>>

\* `else: await cache.increment(key)`
LimiterIncrements ==
    /\ \E c \in LimiterCalls :
         /\ lpc[c] = "got"
         /\ seen[c] # None
         /\ seen[c][1] < RequestsPerMinute
         /\ rl' = incrby(rl, 1)
         /\ lpc' = [lpc EXCEPT ![c] = "idle"]
         /\ verdict' = [verdict EXCEPT ![c] = "admitted"]
    /\ UNCHANGED <<limiterFrame, seen, started>>

\* Redis removes the key when its TTL has run out
WindowExpires ==
    /\ rl # None
    /\ rl[1].ttl
    /\ rl' = None
    /\ UNCHANGED <<limiterFrame, lpc, seen, verdict, started>>

NextLimiter ==
    \/ LimiterGet
    \/ LimiterSet
    \/ LimiterRejects
    \/ LimiterIncrements
    \/ WindowExpires

SpecLimiter == InitLimiter /\ [][NextLimiter]_vars

---------------------------------------------------------------------------
\* Properties of the unary dispatcher (checked under Spec)

IsCall(ev) == ev.type = "call"
CallIndexes == {i \in DOMAIN trace : trace[i].type = "call"}
\* runs of _try_provider (positions of the chain) that made an upstream call
AttemptedRuns == {trace[i].idx : i \in CallIndexes}
WonRuns == {trace[i].idx : i \in {c \in CallIndexes : trace[c].ok}}
\* runs of _try_provider that made calls and lost every one of them
ExhaustedRuns == AttemptedRuns \ WonRuns
\* upstream calls made by the run at position j of the chain
NumCallsAt(j) == Cardinality({i \in CallIndexes : trace[i].idx = j})
Succeeded == pc = "returned" \/ (pc = "done" /\ httpStatus = 200)
\* the retry count the request asks for: its own value, else the default
ClaimedRetryCount == IF reqRetry = None THEN max_retry_count ELSE reqRetry[1]

\* C1: providers are attempted strictly in the order [primary] ++ fallbacks:
\* calls never go back to an earlier position, no enabled provider is
\* skipped, a call that is followed by another call has failed, the request
\* returns at the first success, and the response is labelled with the name
\* of the provider whose attempt succeeded.
C1_OrderedFailover ==
    /\ LET calls == SelectSeq(trace, IsCall) IN
          \A k \in 1..(Len(calls) - 1) :
              /\ calls[k].idx <= calls[k + 1].idx
              /\ ~ calls[k].ok
    /\ \A i \in CallIndexes : trace[i].provider = chain[trace[i].idx]
    /\ LET attempted == AttemptedRuns IN
          \A j \in attempted : \A h \in 1..(j - 1) :
              chain[h] \in enabled => h \in attempted
    /\ Succeeded =>
          /\ trace # <<>>
          /\ trace[Len(trace)].type = "call"
          /\ trace[Len(trace)].ok
          /\ response.provider = trace[Len(trace)].provider
    /\ (\E i \in CallIndexes : trace[i].ok) => Succeeded

C1_Witness ==
    /\ pc = "done"
    /\ httpStatus = 200
    /\ Len(chain) = 3
    /\ chain[1] # chain[3]
    /\ AttemptedRuns = {1, 2, 3}
    /\ response.provider = chain[3]

\* C2: a provider that loses every attempt receives exactly retry_count + 1
\* upstream calls, retry_count being the request's value (0..5) or the
\* global default when the request carries none.
C2_ExactlyRetryCountPlusOne ==
    \A j \in DOMAIN chain :
        (j < idx /\ chain[j] \in enabled) =>
            NumCallsAt(j) = ClaimedRetryCount + 1

\* C3: when the primary loses every attempt and the next provider wins at
\* once, the primary got retry_count + 1 calls, the fallback one call, the
\* response is labelled with the fallback, and the request added exactly two
\* rows: a 500 row for the primary, then a 200 row for the fallback.
C3_FailoverScenario ==
    (Succeeded /\ idx = 2 /\ chain[1] \in enabled /\ NumCallsAt(2) = 1) =>
        /\ NumCallsAt(1) = ClaimedRetryCount + 1
        /\ response.provider = chain[2]
        /\ Len(logs) = 2
        /\ logs[1].provider = chain[1] /\ logs[1].status = 500
        /\ logs[2].provider = chain[2] /\ logs[2].status = 200

C5_AllProvidersFailed ==
    /\ (idx > Len(chain) /\ pc # "route") =>
          /\ raised # <<>>
          /\ DOMAIN raised[1] = Range(chain)
          /\ \A j \in AttemptedRuns : chain[j] \in DOMAIN raised[1]
          /\ \A n \in DOMAIN raised[1] :
                IF n \in enabled
                  THEN /\ raised[1][n].reason = "failed after attempts"
                       /\ raised[1][n].last \in ErrorKinds
                  ELSE raised[1][n].reason = "not found or disabled"
    /\ raised # <<>> => /\ ~ Succeeded
                        /\ \A i \in CallIndexes : ~ trace[i].ok
    /\ (pc = "done" /\ raised # <<>>) => httpStatus = 500

C5_Witness ==
    /\ pc = "done"
    /\ httpStatus = 500
    /\ Len(chain) = 3
    /\ DOMAIN raised[1] = Providers
    /\ Cardinality(ExhaustedRuns) = 3

\* seconds slept after the k-th failed attempt, k = 0, 1, 2, 3, 4
BackoffTable == <<1, 2, 4, 8, 10>>

\* C6: every sleep directly follows a failed attempt and is directly
\* followed by the next attempt on the same provider; after the k-th failed
\* attempt it lasts 1, 2, 4, 8, 10 seconds; two attempts on the same
\* provider are always separated by a sleep; nothing is slept after the
\* last attempt on a provider or before the first attempt on the next one.
C6_Backoff ==
    /\ \A i \in DOMAIN trace :
          IF trace[i].type = "sleep"
            THEN /\ i > 1
                 /\ trace[i - 1].type = "call"
                 /\ ~ trace[i - 1].ok
                 /\ trace[i - 1].idx = trace[i].idx
                 /\ trace[i - 1].attempt + 1 \in DOMAIN BackoffTable
                 /\ trace[i].secs = BackoffTable[trace[i - 1].attempt + 1]
                 /\ IF i < Len(trace)
                      THEN /\ trace[i + 1].type = "call"
                           /\ trace[i + 1].idx = trace[i].idx
                      ELSE pc = "attempt" /\ idx = trace[i].idx
            \* a call is the k-th attempt of its run: the first one when it
            \* follows nothing or a call (of an earlier run), the next one
            \* when it follows a sleep
            ELSE IF i > 1 /\ trace[i - 1].type = "sleep"
                   THEN trace[i].attempt = trace[i - 2].attempt + 1
                   ELSE /\ trace[i].attempt = 0
                        /\ i > 1 => trace[i - 1].idx < trace[i].idx

C6_Witness ==
    /\ \E i \in DOMAIN trace : trace[i].type = "sleep" /\ trace[i].secs = 10
    /\ AttemptedRuns = {1, 2}

\* upstream calls a provider received, failure rows written under its name
CallsTo(p) == {i \in CallIndexes : trace[i].provider = p}
FailureRowsOf(p) == {i \in DOMAIN logs : logs[i].provider = p /\ logs[i].status = 500}

\* C33: within one unary request no provider receives more than
\* retry_count + 1 upstream calls and no provider gets more than one failure
\* row, whatever the chain [primary] ++ fallbacks, a chain that names the
\* primary again among the fallbacks included.
C33_NoProviderTwice ==
    \A p \in Providers :
       /\ Cardinality(CallsTo(p)) <= ClaimedRetryCount + 1
       /\ Cardinality(FailureRowsOf(p)) <= 1

\* names of the chain that _get_provider does not find
Missing == {n \in Range(chain) : n \notin enabled}

\* C29: a provider name of the chain that is missing or disabled at lookup
\* causes no upstream call, no backoff sleep and no request-log row under
\* its name; once route_request has passed it, the error is recorded under
\* that name and the next provider is tried; the request fails only when
\* every provider of the chain has failed, the found ones after all their
\* attempts.
C29_MissingProviderSkipped ==
    /\ \A i \in DOMAIN trace : trace[i].provider \notin Missing
    /\ \A i \in DOMAIN logs : logs[i].provider \notin Missing
    /\ \A j \in DOMAIN chain :
          (j < idx /\ chain[j] \in Missing) =>
             /\ chain[j] \in DOMAIN last_errors
             /\ last_errors[chain[j]].reason = "not found or disabled"
             /\ last_errors[chain[j]].attempts = 0
    /\ (raised # <<>> \/ httpStatus = 500) =>
          /\ \A i \in CallIndexes : ~ trace[i].ok
          /\ \A j \in DOMAIN chain :
                chain[j] \in enabled => NumCallsAt(j) = retry_count(reqRetry) + 1

\* a request answered by its second provider after the first name was not
\* found: one call, one row, the error of the first name recorded
C29_Witness ==
    /\ pc = "done"
    /\ httpStatus = 200
    /\ Len(chain) >= 2
    /\ chain[1] \in Missing
    /\ chain[2] \in enabled
    /\ chain[1] \in DOMAIN last_errors
    /\ Len(logs) = 1
    /\ logs[1].provider = chain[2]

---------------------------------------------------------------------------
\* Properties of the streaming path (checked under SpecStream)

StreamDone == pc = "stream_done"

C8_ExactlyOneStreamRow ==
    (StreamDone /\ streamCalls # <<>>) => Len(logs) = 1

\* C9: the frames delivered to the caller are the frames the adapter
\* emitted, unchanged and in the same order, none dropped or duplicated.
C9_Passthrough ==
    delivered = emitted

C9_Witness ==
    /\ StreamDone
    /\ outcome = "completed"
    /\ delivered = <<Frame("json", NoUsage, <<"e">>), GarbageFrame, DoneFrame>>

\* the last non-[DONE] data frame of the stream, <<>> when there is none
LastDataFrame ==
    LET D == {i \in DOMAIN emitted : emitted[i].body # "[DONE]"}
    IN  IF D = {} THEN <<>>
        ELSE <<emitted[CHOOSE i \in D : \A k \in D : k <= i]>>

ReportsUsage ==
    /\ LastDataFrame # <<>>
    /\ LastDataFrame[1].body = "json"
    /\ LastDataFrame[1].usage.present
    /\ LastDataFrame[1].usage.value # None
    /\ LastDataFrame[1].usage.value[3] > 0

\* C10: for a completed stream that carried content, the accountant's row
\* holds the usage of the last data frame when that usage has
\* total_tokens > 0, and otherwise estimated values: never null,
\* completion_tokens estimated from the accumulated content, total the sum
\* of the two.
C10_UsageOrEstimate ==
    (StreamDone /\ outcome = "completed" /\ stream_state.accumulated_content # <<>>) =>
        LET row == logs[Len(logs)] IN
        IF ReportsUsage
          THEN row.tokens = LastDataFrame[1].usage.value
          ELSE /\ row.tokens # None
               /\ row.tokens[2] =
                      estimate_completion_tokens(stream_state.accumulated_content)
               /\ row.tokens[3] = row.tokens[1] + row.tokens[2]

---------------------------------------------------------------------------
\* Properties of the adapters (checked under SpecAdapter)

DoneCount == Cardinality({i \in DOMAIN frames : frames[i] = DoneFrame})

\* C12: for each of the three adapters, a stream that completes without
\* error ends with the frame "data: [DONE]" as its last frame, emitted
\* exactly once, and no frame is emitted after it.
C12_EndsWithDone ==
    apc = "completed" =>
        /\ frames # <<>>
        /\ frames[Len(frames)] = DoneFrame
        /\ DoneCount = 1

\* indexes of the data frames of the stream, those the accountant tracks
TrackedIndexes == {i \in DOMAIN frames : is_tracked(frames[i])}

\* the last data frame of the stream, as route_streaming_request keeps it
LastTracked ==
    IF TrackedIndexes = {} THEN None
    ELSE <<frames[CHOOSE i \in TrackedIndexes : \A j \in TrackedIndexes : j <= i]>>

\* the upstream response ended with an event that reports the usage,
\* followed at most by [DONE] and by lines that are not data
EndsWithUsageEvent ==
    \E i \in DOMAIN upstream :
       /\ upstream[i] \in UsageLines
       /\ \A j \in DOMAIN upstream :
             j > i => upstream[j] \in {"done", "empty", "comment", "event"}

\* C27: for an Anthropic stream whose final usage-bearing event reports
\* input_tokens = 7 and output_tokens = 4, the last data frame the
\* accountant inspects carries that usage, so that the row logged for the
\* request has prompt_tokens = 7, completion_tokens = 4, total_tokens = 11.
C27_AnthropicUsageLogged ==
    (adapter = "anthropic" /\ apc = "completed" /\ EndsWithUsageEvent) =>
        /\ LastTracked # None
        /\ LastTracked[1].usage = SomeUsage
        /\ extract_usage(LastTracked) = Return(<<7, 4, 11>>)

---------------------------------------------------------------------------
\* Properties of the balancer (checked under SpecBalancer)

\* enabled, and the health record is missing or has is_healthy = true
Live(d, p) ==
    /\ d[p].enabled
    /\ \/ d[p].health = None
       \/ d[p].health = <<HealthRow(TRUE, 0, None)>>

LiveSet(d) == {p \in Providers : Live(d, p)}

Names(data) == {data[i].name : i \in DOMAIN data}

Selected == result.op = "select" /\ result.ok

\* a step of select_provider that is not a stuttering step: the store is
\* left alone, the last call is a select_provider call, and the result or
\* the cached list is new (the expiry of the list is the only other step
\* that leaves a select_provider result in place)
SelectStep ==
    /\ result'.op = "select"
    /\ db' = db
    /\ <<cache', result'>> # <<cache, result>>
    /\ ~(cache # None /\ cache' = None)

\* C13 (as stated): whenever at least one provider is enabled and healthy,
\* select_provider returns a provider that is enabled and whose health
\* record is missing or healthy, never a disabled or unhealthy one.
C13_ReturnsEnabledHealthy ==
    [][(SelectStep /\ LiveSet(db) # {}) =>
          (result'.ok /\ result'.value[1] \in LiveSet(db))]_vars

\* C13 (amended): select_provider returns a member of the candidate list
\* it works on.  When the key holds no list, that list is loaded by the
\* call, the call succeeds whenever a provider is enabled and healthy, and
\* the provider returned is enabled and healthy at that moment.  When the
\* key holds a list (stored by an earlier call, up to 30 seconds ago), the
\* result is a member of the stored list, whose members were all enabled
\* and healthy when the list was stored.
C13_FromCandidateList ==
    [][/\ SelectStep =>
            /\ result'.data = <<>> <=> (cache = None /\ LiveSet(db) = {})
            /\ result'.ok <=> result'.data # <<>>
            /\ result'.ok => result'.value[1] \in Names(result'.data)
            /\ cache = None => Names(result'.data) = LiveSet(db)
            /\ cache # None => result'.data = cache[1]
       /\ (cache' # cache /\ cache' # None) =>
            /\ cache'[1] # <<>>
            /\ Names(cache'[1]) = LiveSet(db)
      ]_vars

C13_Witness ==
    /\ Selected
    /\ ~result.hit
    /\ result.fallback = <<>>
    /\ cache # None
    /\ \E p \in Providers : db[p].enabled /\ ~Live(db, p)
    /\ result.value[1] \in LiveSet(db)

\* the positions of the fallback list whose name is a healthy member of
\* the candidate list of the call
Qualifying ==
    {k \in DOMAIN result.fallback :
        \E i \in DOMAIN result.data :
            result.data[i].name = result.fallback[k] /\ result.data[i].is_healthy}

\* C14: with a fallback list, select_provider returns the first name in
\* list order that is in the healthy candidate set; absent or unhealthy
\* names are skipped; only when no listed name qualifies is the result a
\* weighted random draw from the candidate set.
C14_FirstListedCandidate ==
    Selected =>
        IF Qualifying # {}
          THEN /\ result.value = <<result.fallback[MinOf(Qualifying)]>>
               /\ \A k \in DOMAIN result.fallback :
                     k < MinOf(Qualifying) =>
                        result.fallback[k] \notin Names(result.data)
          ELSE result.value[1] \in Names(result.data)

C14_Witness ==
    /\ Selected
    /\ Len(result.data) = 2
    /\ result.fallback = <<result.data[2].name, result.data[1].name>>
    /\ result.value = <<result.data[2].name>>

\* the candidate list on which the last balancer call worked was empty
EmptyCandidates == result.op # "none" /\ result.data = <<>>

---------------------------------------------------------------------------
\* Properties of the prober (checked under SpecProber)

HasRecord(p) == db[p].health # None

\* C17: each failed probe increases consecutive_failures by exactly one,
\* so that the counter equals the length of the current run of failed
\* probes, and is_healthy is false once that run has reached max_errors.
C17_Hysteresis ==
    \A p \in Providers :
        (lastProbe[p] = "fail" /\ HasRecord(p)) =>
            /\ fails[p] < max_errors =>
                   db[p].health[1].consecutive_failures = fails[p]
            /\ fails[p] >= max_errors => ~db[p].health[1].is_healthy

\* C18: after a successful probe, whatever the number of failed probes
\* before it and also from the unhealthy state, the record has
\* is_healthy = true, consecutive_failures = 0 and no error_message.
C18_Healing ==
    \A p \in Providers :
        lastProbe[p] = "ok" =>
            /\ HasRecord(p)
            /\ db[p].health[1] = HealthRow(TRUE, 0, None)

\* C19: a provider whose run of failed probes has reached max_errors is
\* not among the candidates select_provider loads, until a probe of it
\* succeeds; after a successful probe it is among them again.
C19_ExcludedUntilHealed ==
    \A p \in Providers :
        db[p].enabled =>
            /\ fails[p] >= max_errors =>
                   \A data \in get_healthy_providers(db) :
                       \A i \in DOMAIN data : data[i].name # p
            /\ lastProbe[p] = "ok" =>
                   \A data \in get_healthy_providers(db) :
                       \E i \in DOMAIN data : data[i].name = p

\* C20: when a pass of the prober loop is over, every enabled provider it
\* selected has been probed in that pass, and the record of each of them
\* exists and shows the outcome of that probe, whatever the probes of the
\* other providers did; the loop is then waiting for its next pass.
C20_EveryProviderProbed ==
    (ppc = "sleeping" /\ batch # {}) =>
        \A p \in batch :
            /\ p \in probed
            /\ HasRecord(p)
            /\ lastProbe[p] = "ok" => db[p].health[1].is_healthy
            /\ lastProbe[p] = "fail" =>
                   db[p].health[1].consecutive_failures >= 1

---------------------------------------------------------------------------
\* Properties of a unary request from its arrival (checked under SpecGateway)

\* a 500 row of the dispatcher for a named provider
FailureRowOf(p) ==
    \E i \in DOMAIN logs : logs[i].provider = p /\ logs[i].status = 500

C22_CancellationStops ==
    [][cancelled' => (trace' = trace /\ logs' = logs /\ idx' = idx)]_vars

\* a request cancelled after a failed attempt, with a retry and a fallback
\* provider still left
C22_Witness ==
    /\ pc = "cancelled"
    /\ cancelled
    /\ \E i \in DOMAIN trace : IsCall(trace[i]) /\ ~trace[i].ok
    /\ attempt < retry_count(reqRetry)
    /\ idx < Len(chain)
    /\ chain[idx + 1] \in enabled

C24_HintClampsTimeout ==
    adapter_timeout # None =>
       adapter_timeout[1] = IF hint = None THEN provider_timeout
                            ELSE Min(hint[1], provider_timeout)

\* C24 amended: the timeout given to the adapter of an attempt is the
\* request's timeout hint whenever the request carries one, shorter or
\* longer than the provider's timeout, and the provider's timeout when the
\* request carries no hint.
C24_HintReplacesTimeout ==
    adapter_timeout # None =>
       adapter_timeout[1] = IF hint = None THEN provider_timeout ELSE hint[1]

\* an attempt made with a hint longer than the provider's timeout
C24_Witness ==
    /\ hint # None
    /\ hint[1] > provider_timeout
    /\ adapter_timeout = hint
    /\ \E i \in DOMAIN trace : IsCall(trace[i])

\* the keys a request carries: the token of a well-formed Bearer
\* Authorization header and a non-empty X-API-Key header
CarriedKeys ==
    (IF Len(authorization) = 2 /\ Lower(authorization[1]) = "bearer"
       THEN {authorization[2]} ELSE {})
    \cup (IF x_api_key # None /\ x_api_key[1] # "" THEN {x_api_key[1]} ELSE {})

\* the allow-list lets the key through
Allowed(k) == api_keys = {} \/ k \in api_keys

Rejected == pc = "done" /\ httpStatus = 401

\* C25: once verify_api_key has run, a request that carries no key is
\* rejected with 401; a request whose key (in Authorization: Bearer or in
\* X-API-Key) passes the allow-list, which an empty allow-list lets every
\* key do, is accepted; a request whose key is outside a non-empty
\* allow-list is rejected with 401; and a rejected request has looked up no
\* provider, made no upstream call and written no log row.
C25_Authentication ==
    /\ pc # "auth" =>
          /\ CarriedKeys = {} => Rejected
          /\ (CarriedKeys # {} /\ \A k \in CarriedKeys : Allowed(k)) => ~ Rejected
          /\ (CarriedKeys # {} /\ \A k \in CarriedKeys : ~ Allowed(k)) => Rejected
    /\ httpStatus = 401 =>
          /\ pc = "done"
          /\ trace = <<>>
          /\ logs = <<>>
          /\ idx = 1
          /\ last_errors = <<>>
          /\ adapter_timeout = None
          /\ result = NoResult

\* a request refused for a key that the non-empty allow-list does not hold
C25_Witness ==
    /\ Rejected
    /\ api_keys # {}
    /\ CarriedKeys # {}
    /\ trace = <<>>

---------------------------------------------------------------------------
\* Properties of the admin writes (checked under SpecAdmin)

\* C26: every admin write invalidates the whole key family of what it
\* wrote: no key of a family holds a value stored before the last committed
\* write of that family.
C26_WriteInvalidatesFamily ==
    \A k \in DOMAIN kv : kv[k] = written[k.family]

---------------------------------------------------------------------------
\* Properties of the token estimators (checked under SpecEstimator)

\* the content has only characters of [a-zA-Z0-9\s]
PlainAscii(content) == \A i \in DOMAIN content : content[i] = "e"

\* C28: estimate_messages_tokens returns at least 10 for every message
\* list; estimate_completion_tokens returns at least 1 for every content
\* string, the empty one included, and ceil(n / 4) for content of n plain
\* ASCII characters.
C28_EstimatorBounds ==
    ret # None =>
       IF args.fn = "estimate_messages_tokens"
         THEN ret[1].ok /\ ret[1].value >= 10
         ELSE /\ ret[1].ok
              /\ ret[1].value >= 1
              /\ PlainAscii(args.content) =>
                    ret[1].value = (Len(args.content) + 3) \div 4

---------------------------------------------------------------------------
\* Properties of the weighted draw (checked under SpecDraw)

\* the draw intervals (k - 1, k] of [0, W] that give the i-th candidate
DrawsMappedTo(providers, i) ==
    {k \in 1..total_weight(providers) :
        weighted_random_selection(providers, k, 1) = providers[i].name}

\* C30: with total weight W > 0 and a draw value u of [0, W] the function
\* returns the first candidate in list order whose cumulative weight is at
\* least u, and the draw values that give a candidate make up as many unit
\* intervals as its weight; a single candidate is returned without a draw;
\* with W = 0 every candidate can be returned.
C30_WeightedDraw ==
    ret # None =>
       LET L == args.providers
           W == total_weight(L)
       IN  /\ Len(L) = 1 => ret[1].name = L[1].name /\ ret[1].draw = "none"
           /\ (Len(L) > 1 /\ W > 0) =>
                 /\ ret[1].draw = "uniform"
                 /\ \E i \in DOMAIN L :
                       /\ ret[1].name = L[i].name
                       /\ Cumulative(L, i) >= args.rand
                       /\ \A k \in 1..(i - 1) : Cumulative(L, k) < args.rand
                 /\ \A i \in DOMAIN L :
                       Cardinality(DrawsMappedTo(L, i)) = L[i].weight
           /\ (Len(L) > 1 /\ W = 0) =>
                 /\ ret[1].draw = "choice"
                 /\ ret[1].name = L[args.pick].name
                 /\ \A i \in DOMAIN L : \E pick \in DrawPicks(L) :
                       weighted_random_selection(L, args.rand, pick) = L[i].name

\* a draw that falls on the boundary between the first and the second of
\* three weighted candidates, and gives the first
C30_Witness ==
    /\ ret # None
    /\ Len(args.providers) = 3
    /\ args.providers[1].weight = 2
    /\ args.providers[2].weight = 1
    /\ args.rand = 2
    /\ ret[1].name = args.providers[1].name

---------------------------------------------------------------------------
\* Properties of a request and the fleet's health (checked under SpecGateway)

\* the health record of provider p says is_healthy = false
MarkedUnhealthy(p) ==
    IF db[p].health = None THEN FALSE ELSE ~ db[p].health[1].is_healthy

\* the request was authenticated and route_request has looked up its
\* primary provider
PrimaryLookedUp == httpStatus # 401 /\ (pc \notin {"auth", "route"} \/ idx > 1)

\* C31: the health flag is advisory for dispatch: once the primary provider
\* of a request has been looked up and is enabled, it is dispatched to (the
\* first attempt is about to be sent or was sent) whatever its health
\* record says, unless the caller cancelled before the first call.
C31_HealthAdvisory ==
    (PrimaryLookedUp /\ chain[1] \in enabled) =>
       \/ NumCallsAt(1) >= 1
       \/ pc = "attempt" /\ idx = 1 /\ attempt = 0
       \/ cancelled

\* a request answered by its primary provider while the provider's health
\* record says unhealthy
C31_Witness ==
    /\ pc = "done"
    /\ httpStatus = 200
    /\ MarkedUnhealthy(chain[1])
    /\ response.provider = chain[1]
    /\ \E i \in CallIndexes : trace[i].idx = 1 /\ trace[i].ok

---------------------------------------------------------------------------
\* Properties of request translation (checked under SpecTranslate)

\* the vendor's name of a canonical role that is not system
VendorRole(fn, role) ==
    IF role = "assistant" /\ fn = "_convert_to_gemini_format" THEN "model"
    ELSE role

\* C32: request translation loses no message: the outgoing list holds
\* exactly the non-system messages, in order, with their content, user kept
\* as user and assistant kept as assistant (model for Gemini), and every
\* other role not turned into one of these; the content of every message
\* of role system is carried in the top-level system field.
C32_TranslationLossless ==
    ret # None =>
       LET in  == args.messages
           out == ret[1]
           kept == SelectSeq(in, NotSystem)
           S == {i \in DOMAIN in : in[i].role = "system"}
       IN  /\ Len(out.messages) = Len(kept)
           /\ \A i \in DOMAIN kept :
                 /\ out.messages[i].content = kept[i].content
                 /\ out.messages[i].role = VendorRole(args.fn, kept[i].role)
           /\ \A i \in S : in[i].content # None => out.system = in[i].content

---------------------------------------------------------------------------
\* Properties of the rows of a streaming request (checked under SpecStream)

RowsWith(status) == {i \in DOMAIN logs : logs[i].status = status}

\* C34: a finished streaming request has no contradictory rows: none with
\* status 200 when the stream ended with an upstream error, none with
\* status 500 when the stream completed normally.
C34_NoContradictoryRows ==
    pc = "stream_done" =>
       /\ (outcome = "error" /\ raised # <<>> /\ raised[1] \in ErrorKinds)
             => RowsWith(200) = {}
       /\ outcome = "completed" => RowsWith(500) = {}

---------------------------------------------------------------------------
\* Properties of a unary request under admin writes (checked under SpecLive)

\* the step sends an upstream call
SendsCall == Len(trace') = Len(trace) + 1 /\ trace'[Len(trace')].type = "call"

\* C35 (as stated): no upstream attempt is made against a provider that is
\* disabled at the moment the attempt starts; after an admin disabled the
\* provider between two attempts the remaining retries are not sent.
C35_NoAttemptOnDisabled ==
    [][SendsCall => trace'[Len(trace')].provider \in enabled]_vars

\* every run of attempts that ended without a success sent all its attempts
ExhaustedRunsComplete ==
    \A j \in ExhaustedRuns :
       j < idx => NumCallsAt(j) = retry_count(reqRetry) + 1

\* C35 (amended): the provider is looked up once per run of attempts: a run
\* starts only against a provider enabled at the lookup, every call belongs
\* to the run in progress, and a run that does not succeed sends all its
\* retry_count + 1 attempts, also when the provider is disabled meanwhile.
C35_LookupDecides ==
    [][/\ (pc = "route" /\ pc' = "attempt") => chain[idx] \in enabled
       /\ SendsCall => /\ pc = "attempt"
                       /\ trace'[Len(trace')].idx = idx
                       /\ trace'[Len(trace')].provider = chain[idx]
       /\ ExhaustedRunsComplete']_vars

\* a retry is about to be sent to a provider that was disabled after its
\* first attempt
C35_Witness ==
    /\ pc = "attempt"
    /\ attempt >= 1
    /\ chain[idx] \notin enabled
    /\ \E i \in CallIndexes : trace[i].idx = idx /\ trace[i].attempt = 0

---------------------------------------------------------------------------
\* Properties of concurrent probes (checked under SpecSessions)

BothCommitted == \A s \in Sessions : spc[s] = "done"

\* consecutive_failures of an optional record, 0 without a record
FailuresOf(h) == IF h = None THEN 0 ELSE h[1].consecutive_failures

\* C36: when the pass of the prober and a manual_check probe the same
\* provider concurrently, each in its own session, then after both have
\* committed the record reflects both probes: it exists, and when both
\* probes failed consecutive_failures has grown by 2.
C36_ProbesNotLost ==
    BothCommitted =>
       /\ db[args.provider].health # None
       /\ (\A s \in Sessions : ~ sres[s][1].ok) =>
             FailuresOf(db[args.provider].health) = FailuresOf(args.before) + 2

\* C37: a record created by the prober (the provider had none, and a pass
\* that checked the provider has committed) exists and satisfies the
\* health invariants: is_healthy = false exactly when consecutive_failures
\* has reached max_errors.
C37_RecordInvariants ==
    (args.before = None /\ spc["tick"] = "done") =>
       /\ db[args.provider].health # None
       /\ LET h == db[args.provider].health[1]
          IN  (~ h.is_healthy) <=> (h.consecutive_failures >= max_errors)

---------------------------------------------------------------------------
\* Termination of the unary dispatcher (checked under SpecReturning)

SleepIndexes == {i \in DOMAIN trace : trace[i].type = "sleep"}

\* route_request has returned a response or raised
RouteEnded == pc \in {"returned", "raised", "done"}

\* at most n * (r + 1) upstream calls and n * r backoff sleeps, n the
\* length of the chain and r the retry count _try_provider runs with
WithinBudget ==
    /\ Cardinality(CallIndexes) <= Len(chain) * (retry_count(reqRetry) + 1)
    /\ Cardinality(SleepIndexes) <= Len(chain) * retry_count(reqRetry)

---------------------------------------------------------------------------
\* Candidates of weight 0 in the weighted draw (checked under SpecDraw)

\* the candidate the call returned
Returned == CHOOSE i \in DOMAIN args.providers :
                args.providers[i].name = ret[1].name

WeightedCall ==
    ret # None /\ Len(args.providers) > 1 /\ total_weight(args.providers) > 0

\* C39 (as stated): when the total weight is greater than zero, a
\* candidate of weight 0 is never returned, for any draw value in
\* [0, total] and any position of the candidate.
C39_ZeroWeightNeverReturned ==
    WeightedCall => args.providers[Returned].weight > 0

\* C39 (amended): when the total weight is greater than zero, a candidate
\* of weight 0 is never returned for a draw value in (0, total]; the draw
\* value 0 gives the first candidate of the list, whatever its weight.
C39_ZeroWeightOnlyAtZero ==
    WeightedCall =>
       IF args.rand > 0 THEN args.providers[Returned].weight > 0
       ELSE Returned = 1

\* the draw falls on the boundary before a candidate of weight 0 that
\* stands between two weighted ones, and gives the first
C39_Witness ==
    /\ WeightedCall
    /\ Len(args.providers) = 3
    /\ args.providers[1].weight = 1
    /\ args.providers[2].weight = 0
    /\ args.providers[3].weight = 1
    /\ args.rand = 1
    /\ Returned = 1

---------------------------------------------------------------------------
\* Properties of the rate limiter (checked under SpecLimiter)

\* C40: the per-caller rate limit recovers: under every interleaving of
\* the expiry of the counter with the limiter's read, first-request write
\* and increment, the counter key carries its 60-second expiry, so that it
\* never outlives its window and an identifier that reached
\* requests_per_minute is admitted again once the window has expired.
C40_CounterExpires ==
    rl # None => rl[1].ttl
====
